---- MODULE Spec2Model ----
(***************************************************************************)
(* Model of the SCIM gateway entitlements plugins:                         *)
(*   - plugin-loki-entitlements: per-baseEntity collections users, groups  *)
(*     and entitlements held in an embedded document store, with the       *)
(*     handlers getUsers/createUser/deleteUser/modifyUser, the group       *)
(*     handlers, getEntitlements and modifyEntitlement;                    *)
(*   - EntitlementsPlugin: the in-memory user -> entitlement-id mapping.   *)
(*                                                                         *)
(* A JavaScript object is a function from its keys to its values, so that  *)
(* "key in object" is "key \in DOMAIN object".  A collection is the        *)
(* sequence of its documents in insertion order.  The store hands out      *)
(* references to the stored documents (collections are created without a   *)
(* clone option), so an assignment to a document returned by findOne is an *)
(* assignment to the stored document.                                      *)
(***************************************************************************)
EXTENDS Integers, Sequences, FiniteSets, TLC

VARIABLES
  users,            \* baseEntity -> sequence of user documents
  groups,           \* baseEntity -> sequence of group documents
  entitlements,     \* baseEntity -> sequence of entitlement documents
  userEntitlements, \* EntitlementsPlugin: user id -> sequence of entitlement ids
  pluginEntitlements, \* EntitlementsPlugin: its entitlements array
  nextUuid,         \* number of identifiers getUuid has handed out
  clock,            \* number of mutating calls that got past validation; also "now"
  last,             \* the last call: its name, arguments, error and result
  pre,              \* the stores as they were when the last call started
  okUpdates,        \* id of a created record -> number of its successful updates
  scen,             \* progress of the create / patch-add / patch-remove scenario
  calls             \* EntitlementsPlugin.modifyUser calls waiting at an await

vars == <<users, groups, entitlements, userEntitlements, pluginEntitlements,
          nextUuid, clock, last, pre, okUpdates, scen, calls>>

-----------------------------------------------------------------------------
(* Bounds of the model *)

\* mutating calls that get past validation, per behaviour
MaxOps == 3

\* EntitlementsPlugin.modifyUser calls in flight at one time
MaxCalls == 2

-----------------------------------------------------------------------------
(* JavaScript objects *)

EmptyObj == <<>>

Has(o, k) == k \in DOMAIN o

Put(o, k, v) == [x \in DOMAIN o \cup {k} |-> IF x = k THEN v ELSE o[x]]

Del(o, k) == [x \in DOMAIN o \ {k} |-> o[x]]

\* !o[k] for a string-valued key: missing or the empty string
Falsy(o, k) == ~Has(o, k) \/ o[k] = ""

Range(s) == {s[i] : i \in 1..Len(s)}

-----------------------------------------------------------------------------
(* Strings that the code takes apart are sequences of characters *)

Digits == <<"0", "1", "2", "3", "4", "5", "6", "7", "8", "9">>

IsDigit(c) == \E d \in 1..Len(Digits) : Digits[d] = c

DigitVal(c) == (CHOOSE d \in 1..Len(Digits) : Digits[d] = c) - 1

RECURSIVE NatChars(_)
NatChars(n) ==
  IF n < Len(Digits) THEN <<Digits[n + 1]>>
  ELSE NatChars(n \div Len(Digits)) \o <<Digits[(n % Len(Digits)) + 1]>>

\* a JavaScript number: an integer or NaN
NaN == [nan |-> TRUE, val |-> 0]

Num(n) == [nan |-> FALSE, val |-> n]

\* x + 1
PlusOne(x) == IF x.nan THEN NaN ELSE Num(x.val + 1)

\* String(x)
NumChars(x) ==
  IF x.nan THEN <<"N", "a", "N">>
  ELSE IF x.val < 0 THEN <<"-">> \o NatChars(-x.val)
  ELSE NatChars(x.val)

\* s.indexOf(pat) + 1, 0 when pat does not occur
IndexOf(s, pat) ==
  LET hits == {i \in 1..(Len(s) - Len(pat) + 1) : SubSeq(s, i, i + Len(pat) - 1) = pat}
  IN IF hits = {} THEN 0 ELSE CHOOSE i \in hits : \A j \in hits : i <= j

\* s.replace(pat, ''): the first occurrence only
ReplaceFirst(s, pat) ==
  LET i == IndexOf(s, pat)
  IN IF i = 0 THEN s ELSE SubSeq(s, 1, i - 1) \o SubSeq(s, i + Len(pat), Len(s))

RECURSIVE TrimLeft(_)
TrimLeft(s) == IF s # <<>> /\ Head(s) = " " THEN TrimLeft(Tail(s)) ELSE s

RECURSIVE DigitPrefix(_)
DigitPrefix(s) ==
  IF s = <<>> \/ ~IsDigit(Head(s)) THEN <<>>
  ELSE <<Head(s)>> \o DigitPrefix(Tail(s))

RECURSIVE DigitsVal(_, _)
DigitsVal(ds, acc) ==
  IF ds = <<>> THEN acc
  ELSE DigitsVal(Tail(ds), acc * Len(Digits) + DigitVal(Head(ds)))

\* parseInt(s): leading blanks, a sign, then the longest run of digits
ParseInt(s) ==
  LET t == TrimLeft(s)
      signed == t # <<>> /\ Head(t) \in {"-", "+"}
      ds == DigitPrefix(IF signed THEN Tail(t) ELSE t)
  IN IF ds = <<>> THEN NaN
     ELSE IF signed /\ Head(t) = "-" THEN Num(-DigitsVal(ds, 0))
     ELSE Num(DigitsVal(ds, 0))

WPrefix == <<"W", "/", "\"">>

Quote == <<"\"">>

\* the weak version tag W/"n"
Tag(n) == WPrefix \o NatChars(n) \o Quote

\* 'W/"' + (parseInt(meta.version?.replace('W/"', '').replace('"', '') || '0') + 1) + '"'
NextVersion(meta) ==
  LET stripped == IF Has(meta, "version")
                  THEN ReplaceFirst(ReplaceFirst(meta["version"], WPrefix), Quote)
                  ELSE <<>>
      digits == IF stripped = <<>> THEN <<"0">> ELSE stripped
  IN WPrefix \o NumChars(PlusOne(ParseInt(digits))) \o Quote

-----------------------------------------------------------------------------
(* Configuration: config.entity *)

\* baseEntity "a" keeps the default persistence (its collections start empty
\* when no database file exists); baseEntity "b" sets persistence: false and
\* is loaded with the test users, groups and entitlements.
BaseEntities == {"a", "b"}

isPersisence(baseEntity) == baseEntity = "a"

\* a baseEntity key with no configuration
UnknownEntity == "zz"

\* const configDir = scimgateway.configDir, as path segments
configDir == <<"config">>

\* config.entity[baseEntity].dbname || 'loki-entitlements.db', as path segments
DefaultDbname == <<"loki-entitlements.db">>

\* path normalisation of path.join: "." segments go, ".." takes the segment
\* before it
RECURSIVE Normalize(_, _)
Normalize(segments, out) ==
  IF segments = <<>> THEN out
  ELSE IF Head(segments) = "." THEN Normalize(Tail(segments), out)
  ELSE IF Head(segments) = ".." /\ out # <<>>
  THEN Normalize(Tail(segments), SubSeq(out, 1, Len(out) - 1))
  ELSE Normalize(Tail(segments), Append(out, Head(segments)))

PathJoin(dir, name) == Normalize(dir \o name, <<>>)

\* The loop over config.entity at plugin start. entity is the sequence of the
\* configurations in key order, dbNames the names used so far, done the outcome
\* for the keys behind: a key whose dbname is in dbNames is logged and passed
\* over, any other gets a database on the joined path.
RECURSIVE Bind(_, _, _)
Bind(entity, dbNames, done) ==
  IF entity = <<>> THEN done
  ELSE LET e == Head(entity)
           dbname == IF Has(e, "dbname") /\ e.dbname # <<>> THEN e.dbname
                     ELSE DefaultDbname
       IN IF dbname \in Range(dbNames)
          THEN Bind(Tail(entity), dbNames,
                    Append(done, [baseEntity |-> e.baseEntity, bound |-> FALSE]))
          ELSE Bind(Tail(entity), Append(dbNames, dbname),
                    Append(done,
                           [baseEntity |-> e.baseEntity, bound |-> TRUE,
                            dbname |-> PathJoin(configDir, dbname),
                            isPersisence |-> ~(Has(e, "persistence")
                                               /\ e.persistence = FALSE)]))

\* what new Loki(dbname, {adapter}) keeps its collections in: the file on the
\* path with LokiFsAdapter, memory of its own with LokiMemoryAdapter
Store(b) ==
  IF b.isPersisence THEN <<"file">> \o b.dbname ELSE <<"memory", b.baseEntity>>

-----------------------------------------------------------------------------
(* Errors *)

NoErr == [name |-> "", what |-> "", value |-> ""]

Err(name, what, value) == [name |-> name, what |-> what, value |-> value]

Failed == last.err # NoErr

-----------------------------------------------------------------------------
(* The document collection *)

\* the position of the first document whose key k equals v, 0 when none:
\* collection.findOne({ k: v })
FindIdx(coll, k, v) ==
  LET hits == {i \in 1..Len(coll) : Has(coll[i], k) /\ coll[i][k] = v}
  IN IF hits = {} THEN 0 ELSE CHOOSE i \in hits : \A j \in hits : i <= j

UserUnique == {"id", "userName"}

GroupUnique == {"displayName"}

EntitlementUnique == {"id"}

\* the unique keys of doc whose value another document of coll already holds
Clash(coll, doc, skip, unique) ==
  {k \in unique : /\ Has(doc, k)
                  /\ \E j \in 1..Len(coll) : /\ j # skip
                                             /\ Has(coll[j], k)
                                             /\ coll[j][k] = doc[k]}

DuplicateKey(coll, doc, skip, unique) ==
  LET k == CHOOSE x \in Clash(coll, doc, skip, unique) : TRUE
  IN Err("Error", "Duplicate key for property " \o k, doc[k])

\* collection.insert(doc): rejected when a unique key is already taken
Insert(coll, doc, unique) ==
  IF Clash(coll, doc, 0, unique) # {}
  THEN [data |-> coll, err |-> DuplicateKey(coll, doc, 0, unique)]
  ELSE [data |-> Append(coll, doc), err |-> NoErr]

\* collection.update(doc) for the document at position i, which the caller has
\* already assigned to: the stored document is doc whether or not the unique
\* constraint rejects the update
Update(coll, i, doc, unique) ==
  [data |-> [coll EXCEPT ![i] = doc],
   err |-> IF Clash(coll, doc, i, unique) # {}
           THEN DuplicateKey(coll, doc, i, unique)
           ELSE NoErr]

\* Remove that drops the document at position i and all that follow it
RemoveFrom(coll, i) == SubSeq(coll, 1, i - 1)

\* collection.remove(doc) for the document at position i
Remove(coll, i) == SubSeq(coll, 1, i - 1) \o SubSeq(coll, i + 1, Len(coll))

-----------------------------------------------------------------------------
(* Test data loaded by loadHandler when persistence is off *)

Grant123 == [value |-> "entitlement-123", display |-> "Pro License",
             type |-> "License", primary |-> TRUE]

Grant789 == [value |-> "entitlement-789", display |-> "Admin Access",
             type |-> "Permission"]

Grant456 == [value |-> "entitlement-456", display |-> "Basic License",
             type |-> "License", primary |-> TRUE]

\* the test users, stored without meta, with the grants loadHandler gives them
TestModeUsers ==
  << [id |-> "bjensen", userName |-> "bjensen", entitlements |-> <<Grant123, Grant789>>],
     [id |-> "jsmith", userName |-> "jsmith", entitlements |-> <<Grant456>>] >>

TestModeGroups ==
  << [id |-> "Admins", displayName |-> "Admins"],
     [id |-> "Employees", displayName |-> "Employees"] >>

testEntitlements ==
  << [id |-> "entitlement-123", displayName |-> "Pro License", type |-> "License",
      description |-> "Professional license with full features"],
     [id |-> "entitlement-456", displayName |-> "Basic License", type |-> "License",
      description |-> "Basic license with limited features"],
     [id |-> "entitlement-789", displayName |-> "Admin Access", type |-> "Permission",
      description |-> "Administrative access to the system"],
     [id |-> "entitlement-abc", displayName |-> "Premium Support", type |-> "Support",
      description |-> "Premium customer support access"] >>

loadHandler(baseEntity) ==
  IF isPersisence(baseEntity)
  THEN [users |-> <<>>, groups |-> <<>>, entitlements |-> <<>>]
  ELSE [users |-> TestModeUsers, groups |-> TestModeGroups,
        entitlements |-> testEntitlements]

-----------------------------------------------------------------------------
(* createUser / createGroup *)

\* scimgateway.getUuid()
getUuid(n) == "uuid-" \o ToString(n)

\* user.meta = {...}: created and lastModified are two readings of the clock
NewMeta(resourceType, now) ==
  [resourceType |-> resourceType, created |-> now.created,
   lastModified |-> now.lastModified, version |-> Tag(1)]

\* Create without the check that the mandatory attribute is there
CreateUnvalidated(coll, scimdata, key, resourceType, unique, uuid, now) ==
  IF ~Falsy(scimdata, key) /\ FindIdx(coll, key, scimdata[key]) # 0
  THEN [data |-> coll, err |-> Err("uniqueness", key \o " already exists", scimdata[key]),
        result |-> EmptyObj]
  ELSE LET doc == Put(Put(scimdata, "id", uuid), "meta", NewMeta(resourceType, now))
           ins == Insert(coll, doc, unique)
       IN [data |-> ins.data, err |-> ins.err,
           result |-> IF ins.err = NoErr THEN doc ELSE EmptyObj]

\* Create without the look-up of an existing record of that name
CreateUnchecked(coll, scimdata, key, resourceType, unique, uuid, now) ==
  IF Falsy(scimdata, key)
  THEN [data |-> coll, err |-> Err("invalidValue", key \o " is required", ""),
        result |-> EmptyObj]
  ELSE LET doc == Put(Put(scimdata, "id", uuid), "meta", NewMeta(resourceType, now))
           ins == Insert(coll, doc, unique)
       IN [data |-> ins.data, err |-> ins.err,
           result |-> IF ins.err = NoErr THEN doc ELSE EmptyObj]

\* the handler's steps on one collection; key is the mandatory attribute
Create(coll, scimdata, key, resourceType, unique, uuid, now) ==
  IF Falsy(scimdata, key)
  THEN [data |-> coll, err |-> Err("invalidValue", key \o " is required", ""),
        result |-> EmptyObj]
  ELSE IF FindIdx(coll, key, scimdata[key]) # 0
  THEN [data |-> coll, err |-> Err("uniqueness", key \o " already exists", scimdata[key]),
        result |-> EmptyObj]
  ELSE LET doc == Put(Put(scimdata, "id", uuid), "meta", NewMeta(resourceType, now))
           ins == Insert(coll, doc, unique)
       IN [data |-> ins.data, err |-> ins.err,
           result |-> IF ins.err = NoErr THEN doc ELSE EmptyObj]

-----------------------------------------------------------------------------
(* modifyUser / modifyGroup *)

\* the grant pushed for an add entry
NewGrant(e) ==
  [value |-> e.value,
   display |-> IF Falsy(e, "display") THEN e.value ELSE e.display,
   type |-> IF Falsy(e, "type") THEN "License" ELSE e.type,
   primary |-> IF Has(e, "primary") THEN e.primary ELSE FALSE]

\* ApplyEntry with the remove filter inverted: it keeps the matching grants
ApplyEntryKeepsMatching(user, e) ==
  IF Has(e, "operation") /\ e.operation = "add"
  THEN LET u == IF Has(user, "entitlements") THEN user
                ELSE Put(user, "entitlements", <<>>)
       IN IF \E i \in 1..Len(u.entitlements) : u.entitlements[i].value = e.value
          THEN u
          ELSE Put(u, "entitlements", Append(u.entitlements, NewGrant(e)))
  ELSE IF Has(e, "operation") /\ e.operation = "remove"
  THEN IF Has(user, "entitlements")
       THEN Put(user, "entitlements",
                SelectSeq(user.entitlements, LAMBDA g : g.value = e.value))
       ELSE user
  ELSE user

\* one entry of scimdata.entitlements applied to the stored user
ApplyEntry(user, e) ==
  IF Has(e, "operation") /\ e.operation = "add"
  THEN LET u == IF Has(user, "entitlements") THEN user
                ELSE Put(user, "entitlements", <<>>)
       IN IF \E i \in 1..Len(u.entitlements) : u.entitlements[i].value = e.value
          THEN u
          ELSE Put(u, "entitlements", Append(u.entitlements, NewGrant(e)))
  ELSE IF Has(e, "operation") /\ e.operation = "remove"
  THEN IF Has(user, "entitlements")
       THEN Put(user, "entitlements",
                SelectSeq(user.entitlements, LAMBDA g : g.value # e.value))
       ELSE user
  ELSE user

\* ApplyEntries from the last entry to the first
RECURSIVE ApplyEntriesBackwards(_, _)
ApplyEntriesBackwards(user, entries) ==
  IF entries = <<>> THEN user
  ELSE ApplyEntriesBackwards(ApplyEntry(user, entries[Len(entries)]),
                             SubSeq(entries, 1, Len(entries) - 1))

RECURSIVE ApplyEntries(_, _)
ApplyEntries(user, entries) ==
  IF entries = <<>> THEN user
  ELSE ApplyEntries(ApplyEntry(user, Head(entries)), Tail(entries))

\* the entitlements block of modifyUser: the stored user after it
ApplyEntitlements(user, scimdata) ==
  IF Has(scimdata, "entitlements")
  THEN ApplyEntries(user, scimdata.entitlements)
  ELSE user

\* StripEntitlements without the delete
KeepEntitlements(scimdata) == scimdata

\* delete scimdata.entitlements
StripEntitlements(scimdata) ==
  IF Has(scimdata, "entitlements") THEN Del(scimdata, "entitlements") ELSE scimdata

\* MergeKeys that lets the payload's id and meta overwrite as well
MergeAllKeys(doc, scimdata) ==
  [k \in DOMAIN doc \cup DOMAIN scimdata |-> IF k \in DOMAIN scimdata THEN scimdata[k]
                                           ELSE doc[k]]

\* Object.keys(scimdata).forEach: every key but id and meta overwrites
MergeKeys(doc, scimdata) ==
  LET keys == DOMAIN scimdata \ {"id", "meta"}
  IN [k \in DOMAIN doc \cup keys |-> IF k \in keys THEN scimdata[k] ELSE doc[k]]

\* if (doc.meta) { lastModified = now; version = next version }
AdvanceMeta(doc, now) ==
  IF Has(doc, "meta")
  THEN Put(doc, "meta",
           Put(Put(doc.meta, "lastModified", now), "version", NextVersion(doc.meta)))
  ELSE doc

\* the stored user as modifyUser leaves it before it calls users.update
ModifiedUser(user, scimdata, now) ==
  AdvanceMeta(MergeKeys(ApplyEntitlements(user, scimdata), StripEntitlements(scimdata)), now)

\* the stored group as modifyGroup leaves it before it calls groups.update
ModifiedGroup(group, scimdata, now) == AdvanceMeta(MergeKeys(group, scimdata), now)

\* modifyUserSteps that returns quietly when the look-up finds nothing
modifyUserStepsQuiet(coll, id, scimdata, now) ==
  LET i == FindIdx(coll, "id", id)
  IN IF i = 0
     THEN [data |-> coll, err |-> NoErr, result |-> EmptyObj]
     ELSE LET user == ModifiedUser(coll[i], scimdata, now)
              upd == Update(coll, i, user, UserUnique)
          IN [data |-> upd.data, err |-> upd.err,
              result |-> IF upd.err = NoErr THEN user ELSE EmptyObj]

\* modifyUser on the users collection: look up, assign, users.update
modifyUserSteps(coll, id, scimdata, now) ==
  LET i == FindIdx(coll, "id", id)
  IN IF i = 0
     THEN [data |-> coll, err |-> Err("notFound", "user does not exist", id),
           result |-> EmptyObj]
     ELSE LET user == ModifiedUser(coll[i], scimdata, now)
              upd == Update(coll, i, user, UserUnique)
          IN [data |-> upd.data, err |-> upd.err,
              result |-> IF upd.err = NoErr THEN user ELSE EmptyObj]

\* modifyGroup on the groups collection
modifyGroupSteps(coll, id, scimdata, now) ==
  LET i == FindIdx(coll, "id", id)
  IN IF i = 0
     THEN [data |-> coll, err |-> Err("notFound", "group does not exist", id),
           result |-> EmptyObj]
     ELSE LET group == ModifiedGroup(coll[i], scimdata, now)
              upd == Update(coll, i, group, GroupUnique)
          IN [data |-> upd.data, err |-> upd.err,
              result |-> IF upd.err = NoErr THEN group ELSE EmptyObj]

-----------------------------------------------------------------------------
(* modifyEntitlement *)

\* the properties modifyEntitlement writes
EntitlementFields == {"displayName", "type", "description"}

\* modifyEntitlement on the entitlements collection: every field of scimdata
\* that is not undefined overwrites
modifyEntitlementSteps(coll, id, scimdata) ==
  LET i == FindIdx(coll, "id", id)
  IN IF i = 0
     THEN [data |-> coll, err |-> Err("notFound", "entitlement does not exist", id),
           result |-> EmptyObj]
     ELSE LET written == DOMAIN scimdata \cap EntitlementFields
              entitlement == [k \in DOMAIN coll[i] \cup written |->
                                IF k \in written THEN scimdata[k] ELSE coll[i][k]]
              upd == Update(coll, i, entitlement, EntitlementUnique)
          IN [data |-> upd.data, err |-> upd.err,
              result |-> IF upd.err = NoErr THEN entitlement ELSE EmptyObj]

\* EntitlementsPlugin.modifyEntitlement on this.entitlements: returns null for
\* an id it does not find, and writes the fields of scimdata that are truthy
pluginModifyEntitlementSteps(arr, id, scimdata) ==
  LET entitlementIndex == FindIdx(arr, "id", id)
  IN IF entitlementIndex = 0
     THEN [data |-> arr, err |-> NoErr, result |-> EmptyObj]
     ELSE LET written == {k \in EntitlementFields : ~Falsy(scimdata, k)}
              entitlement == [k \in DOMAIN arr[entitlementIndex] \cup written |->
                                IF k \in written THEN scimdata[k]
                                ELSE arr[entitlementIndex][k]]
          IN [data |-> [arr EXCEPT ![entitlementIndex] = entitlement], err |-> NoErr,
              result |-> entitlement]

-----------------------------------------------------------------------------
(* deleteUser / deleteGroup *)

Delete(coll, id, what) ==
  LET i == FindIdx(coll, "id", id)
  IN IF i = 0
     THEN [data |-> coll, err |-> Err("notFound", what \o " does not exist", id)]
     ELSE [data |-> Remove(coll, i), err |-> NoErr]

-----------------------------------------------------------------------------
(* Filters: getUsers / getGroups / getEntitlements *)

\* the characters of the strings that filters take apart
Chars(s) ==
  CASE s = "bjensen" -> <<"b", "j", "e", "n", "s", "e", "n">>
    [] s = "BJENSEN" -> <<"B", "J", "E", "N", "S", "E", "N">>
    [] s = "b.ensen" -> <<"b", ".", "e", "n", "s", "e", "n">>
    [] s = "jsmith" -> <<"j", "s", "m", "i", "t", "h">>
    [] s = "alice" -> <<"a", "l", "i", "c", "e">>
    [] s = "j" -> <<"j">>
    [] s = "en" -> <<"e", "n">>
    [] s = "Admins" -> <<"A", "d", "m", "i", "n", "s">>
    [] s = "admins" -> <<"a", "d", "m", "i", "n", "s">>
    [] s = "Employees" -> <<"E", "m", "p", "l", "o", "y", "e", "e", "s">>
    [] s = "Staff" -> <<"S", "t", "a", "f", "f">>
    [] s = "Pro License" -> <<"P", "r", "o", " ", "L", "i", "c", "e", "n", "s", "e">>
    [] s = "pro license" -> <<"p", "r", "o", " ", "l", "i", "c", "e", "n", "s", "e">>
    [] s = "Basic License" ->
         <<"B", "a", "s", "i", "c", " ", "L", "i", "c", "e", "n", "s", "e">>
    [] s = "Admin Access" -> <<"A", "d", "m", "i", "n", " ", "A", "c", "c", "e", "s", "s">>
    [] s = "Premium Support" ->
         <<"P", "r", "e", "m", "i", "u", "m", " ", "S", "u", "p", "p", "o", "r", "t">>
    [] s = "License" -> <<"L", "i", "c", "e", "n", "s", "e">>
    [] s = "Permission" -> <<"P", "e", "r", "m", "i", "s", "s", "i", "o", "n">>
    [] s = "Support" -> <<"S", "u", "p", "p", "o", "r", "t">>
    [] s \in {"uuid-0", "uuid-1", "uuid-2", "uuid-3", "uuid-4", "uuid-5"} ->
         <<"u", "u", "i", "d", "-">>
           \o <<CHOOSE c \in {"0", "1", "2", "3", "4", "5"} : s = "uuid-" \o c>>
    [] s \in {"entitlement-123", "entitlement-456", "entitlement-789"} ->
         <<"e", "n", "t", "i", "t", "l", "e", "m", "e", "n", "t", "-">>
           \o (CASE s = "entitlement-123" -> <<"1", "2", "3">>
                 [] s = "entitlement-456" -> <<"4", "5", "6">>
                 [] OTHER -> <<"7", "8", "9">>)
    [] s = "entitlement-abc" ->
         <<"e", "n", "t", "i", "t", "l", "e", "m", "e", "n", "t", "-", "a", "b", "c">>
    [] OTHER -> <<s>>

UpperCase == <<"A", "B", "C", "D", "E", "F", "G", "H", "I", "J", "K", "L", "M",
               "N", "O", "P", "Q", "R", "S", "T", "U", "V", "W", "X", "Y", "Z">>

LowerCase == <<"a", "b", "c", "d", "e", "f", "g", "h", "i", "j", "k", "l", "m",
               "n", "o", "p", "q", "r", "s", "t", "u", "v", "w", "x", "y", "z">>

ToLower(c) ==
  IF \E i \in 1..Len(UpperCase) : UpperCase[i] = c
  THEN LowerCase[CHOOSE i \in 1..Len(UpperCase) : UpperCase[i] = c]
  ELSE c

\* the pattern characters pat match text from position i on; "." matches any
\* character; with ignoreCase letters match in either case
MatchAt(text, i, pat, ignoreCase) ==
  /\ i >= 1
  /\ i + Len(pat) - 1 <= Len(text)
  /\ \A k \in 1..Len(pat) :
       \/ pat[k] = "."
       \/ pat[k] = text[i + k - 1]
       \/ ignoreCase /\ ToLower(pat[k]) = ToLower(text[i + k - 1])

\* a regular expression built from a filter value: ^value.* , .*value$ or ^value$
RegExp(anchor, value, flags) == [anchor |-> anchor, value |-> value, flags |-> flags]

RegexTest(re, s) ==
  LET text == Chars(s)
      pat == Chars(re.value)
      ic == re.flags = "i"
  IN CASE re.anchor = "start" -> MatchAt(text, 1, pat, ic)
       [] re.anchor = "end" -> MatchAt(text, Len(text) - Len(pat) + 1, pat, ic)
       [] OTHER -> Len(text) = Len(pat) /\ MatchAt(text, 1, pat, ic)

\* a.indexOf(b) !== -1
Includes(a, b) ==
  \E i \in 1..(Len(Chars(a)) - Len(Chars(b)) + 1) :
    SubSeq(Chars(a), i, i + Len(Chars(b)) - 1) = Chars(b)

\* the characters in the order of their character codes
CharOrder == <<" ", "-", ".">> \o Digits \o UpperCase \o LowerCase

CharCode(c) ==
  IF \E i \in 1..Len(CharOrder) : CharOrder[i] = c
  THEN CHOOSE i \in 1..Len(CharOrder) : CharOrder[i] = c
  ELSE 0

\* a < b for two strings, given as their characters
RECURSIVE LessThan(_, _)
LessThan(a, b) ==
  IF b = <<>> THEN FALSE
  ELSE IF a = <<>> THEN TRUE
  ELSE IF CharCode(Head(a)) # CharCode(Head(b)) THEN CharCode(Head(a)) < CharCode(Head(b))
  ELSE LessThan(Tail(a), Tail(b))

validFilterOperators ==
  {"eq", "ne", "aeq", "dteq", "gt", "gte", "lt", "lte", "between", "jgt", "jgte", "jlt",
   "jlte", "jbetween", "regex", "in", "nin", "keyin", "nkeyin", "definedin", "undefinedin",
   "contains", "containsAny", "type", "finite", "size", "len", "exists"}

\* the switch that rewrites getObj.operator and getObj.value in place
Translate(getObj) ==
  IF Falsy(getObj, "operator") THEN [err |-> NoErr, getObj |-> getObj]
  ELSE CASE getObj.operator = "co" ->
              [err |-> NoErr, getObj |-> Put(getObj, "operator", "$contains")]
         [] getObj.operator = "ge" ->
              [err |-> NoErr, getObj |-> Put(getObj, "operator", "$gte")]
         [] getObj.operator = "le" ->
              [err |-> NoErr, getObj |-> Put(getObj, "operator", "$lte")]
         [] getObj.operator = "sw" ->
              [err |-> NoErr,
               getObj |-> Put(Put(getObj, "operator", "$regex"), "value",
                              RegExp("start", getObj.value, ""))]
         [] getObj.operator = "ew" ->
              [err |-> NoErr,
               getObj |-> Put(Put(getObj, "operator", "$regex"), "value",
                              RegExp("end", getObj.value, ""))]
         [] OTHER ->
              IF getObj.operator \notin validFilterOperators
              THEN [err |-> Err("invalidFilter", "filter operator is not valid",
                                getObj.operator),
                    getObj |-> getObj]
              ELSE [err |-> NoErr,
                    getObj |-> Put(getObj, "operator", "$" \o getObj.operator)]

\* the store's test of one document value a against the operand b
Test(operator, a, b) ==
  CASE operator = "$eq" -> a = b
    [] operator = "$ne" -> a # b
    [] operator = "$contains" -> Includes(a, b)
    [] operator = "$regex" -> RegexTest(b, a)
    [] operator = "$gt" -> LessThan(Chars(b), Chars(a))
    [] operator = "$gte" -> ~LessThan(Chars(a), Chars(b))
    [] operator = "$lt" -> LessThan(Chars(a), Chars(b))
    [] operator = "$lte" -> ~LessThan(Chars(b), Chars(a))
    [] OTHER -> FALSE

\* collection.find(queryObj): the documents that pass, in stored order
Find(coll, attribute, operator, value) ==
  SelectSeq(coll, LAMBDA doc :
    IF Has(doc, attribute) THEN Test(operator, doc[attribute], value)
    ELSE operator = "$ne")

\* Select that takes a rawFilter for no filter at all
SelectIgnoresRaw(coll, getObj, identifying) ==
  IF ~Falsy(getObj, "operator")
  THEN IF getObj.operator = "$eq" /\ getObj.attribute \in identifying
       THEN IF getObj.attribute = "id"
            THEN [err |-> NoErr, arr |-> Find(coll, "id", "$eq", getObj.value)]
            ELSE [err |-> NoErr,
                  arr |-> Find(coll, getObj.attribute, "$regex",
                               RegExp("both", getObj.value, "i"))]
       ELSE [err |-> NoErr,
             arr |-> Find(coll, getObj.attribute, getObj.operator, getObj.value)]
  ELSE [err |-> NoErr, arr |-> coll]

\* the mandatory if-else logic: the documents the query selects
Select(coll, getObj, identifying) ==
  IF ~Falsy(getObj, "operator")
  THEN IF getObj.operator = "$eq" /\ getObj.attribute \in identifying
       THEN IF getObj.attribute = "id"
            THEN [err |-> NoErr, arr |-> Find(coll, "id", "$eq", getObj.value)]
            ELSE [err |-> NoErr,
                  arr |-> Find(coll, getObj.attribute, "$regex",
                               RegExp("both", getObj.value, "i"))]
       ELSE [err |-> NoErr,
             arr |-> Find(coll, getObj.attribute, getObj.operator, getObj.value)]
  ELSE IF ~Falsy(getObj, "rawFilter")
  THEN [err |-> Err("Error", "not supporting advanced filtering", getObj.rawFilter),
        arr |-> <<>>]
  ELSE [err |-> NoErr, arr |-> coll]

DefaultStartIndex == 1

DefaultCount == 100

\* o[k] || d for a numeric key
OrDefault(o, k, d) == IF Has(o, k) /\ o[k] # 0 THEN o[k] ELSE d

Max(a, b) == IF a >= b THEN a ELSE b

Min(a, b) == IF a <= b THEN a ELSE b

\* Array.prototype.slice(start, end)
Slice(arr, start, end) ==
  LET from == IF start < 0 THEN Max(Len(arr) + start, 0) ELSE Min(start, Len(arr))
      to == IF end < 0 THEN Max(Len(arr) + end, 0) ELSE Min(end, Len(arr))
  IN SubSeq(arr, from + 1, to)

\* totalResults and the paged Resources
Paginate(arr, getObj) ==
  LET startIndex == OrDefault(getObj, "startIndex", DefaultStartIndex)
      count == OrDefault(getObj, "count", DefaultCount)
      start == Max(0, startIndex - 1)
      end == start + count
  IN [Resources |-> Slice(arr, start, end), totalResults |-> Len(arr)]

\* a get handler on one collection
Query(coll, getObj, identifying) ==
  LET tr == Translate(getObj)
  IN IF tr.err # NoErr
     THEN [err |-> tr.err, Resources |-> <<>>, totalResults |-> 0, getObj |-> tr.getObj]
     ELSE LET sel == Select(coll, tr.getObj, identifying)
          IN IF sel.err # NoErr
             THEN [err |-> sel.err, Resources |-> <<>>, totalResults |-> 0,
                   getObj |-> tr.getObj]
             ELSE [err |-> NoErr, Resources |-> Paginate(sel.arr, tr.getObj).Resources,
                   totalResults |-> Paginate(sel.arr, tr.getObj).totalResults,
                   getObj |-> tr.getObj]

-----------------------------------------------------------------------------
(* Inputs *)

PlainGrant(v) == [value |-> v, display |-> v, type |-> "License", primary |-> FALSE]

\* createUser payloads that name the user and nothing else, and those without a name
NameData == {EmptyObj, [userName |-> ""], [userName |-> "bjensen"], [userName |-> "alice"]}

\* a createUser payload that carries its own id, meta and grants
LoadedData ==
  [userName |-> "jsmith", id |-> "bjensen", meta |-> [version |-> Tag(7)],
   entitlements |-> <<PlainGrant("entitlement-123"), PlainGrant("entitlement-123")>>]

\* createGroup payloads
GroupData == {EmptyObj, [displayName |-> "Admins"], [displayName |-> "Staff"]}

\* a createGroup payload that carries its own id and meta
LoadedGroup ==
  [displayName |-> "Staff", id |-> "Admins", meta |-> [version |-> Tag(7)]]

\* modifyUser payloads without grants
RenameData ==
  {[userName |-> "bjensen"], [userName |-> "alice"],
   [title |-> "Manager", id |-> "other", meta |-> [version |-> Tag(0)]]}

\* modifyGroup payloads
GroupPatchData ==
  {[displayName |-> "Admins"], [displayName |-> "Staff"],
   [id |-> "other", meta |-> [version |-> Tag(0)]]}

Add123 == [value |-> "entitlement-123", operation |-> "add"]

Remove123 == [value |-> "entitlement-123", operation |-> "remove"]

Add456 == [value |-> "entitlement-456", operation |-> "add",
           display |-> "Basic License", type |-> "Permission", primary |-> TRUE]

Replace123 == [value |-> "entitlement-123", operation |-> "replace"]

\* an entry without operation
Plain789 == [value |-> "entitlement-789"]

\* the entitlements lists of a patch
Batches ==
  {<<Add123>>, <<Remove123>>, <<Add456>>, <<Add123, Add123>>, <<Add123, Remove123>>,
   <<Remove123, Add123>>, <<Replace123, Add456>>, <<Replace123>>,
   <<Plain789, Remove123>>}

\* modifyUser payloads that patch the grants
GrantData == {[entitlements |-> b] : b \in Batches}

IdsOf(coll) == {coll[i].id : i \in 1..Len(coll)}

NoId == "nobody"

-----------------------------------------------------------------------------
(* The state *)

Stores ==
  [users |-> users, groups |-> groups, entitlements |-> entitlements,
   userEntitlements |-> userEntitlements, pluginEntitlements |-> pluginEntitlements]

Call(op, baseEntity, id, arg, err, result) ==
  [op |-> op, baseEntity |-> baseEntity, id |-> id, arg |-> arg, err |-> err,
   result |-> result, Resources |-> <<>>, totalResults |-> 0, ret |-> FALSE]

unsupported(baseEntity) == Err("Error", "unsupported baseEntity", baseEntity)

\* the call threw before it reached the store
Validation == {"invalidValue", "uniqueness", "notFound"}

NoScen == [phase |-> 0, id |-> ""]

Init ==
  /\ users = [e \in BaseEntities |-> loadHandler(e).users]
  /\ groups = [e \in BaseEntities |-> loadHandler(e).groups]
  /\ entitlements = [e \in BaseEntities |-> loadHandler(e).entitlements]
  /\ userEntitlements = [u \in {"user1", "user2"} |->
                           IF u = "user1" THEN <<"entitlement-123", "entitlement-789">>
                           ELSE <<"entitlement-456">>]
  /\ nextUuid = 0
  /\ clock = 0
  /\ last = Call("", "", "", EmptyObj, NoErr, EmptyObj)
  /\ pluginEntitlements = SubSeq(testEntitlements, 1, Len(testEntitlements) - 1)
  /\ pre = Stores
  /\ okUpdates = EmptyObj
  /\ scen = NoScen
  /\ calls = <<>>

\* a call for a baseEntity that config.entity does not hold throws first
Unsupported(op, baseEntity, id, arg) ==
  /\ last' = Call(op, baseEntity, id, arg, unsupported(baseEntity), EmptyObj)
  /\ pre' = Stores
  /\ scen' = NoScen
  /\ UNCHANGED <<users, groups, entitlements, userEntitlements, pluginEntitlements,
               nextUuid, clock, okUpdates, calls>>

\* the bookkeeping of a create call with outcome out
Created(op, baseEntity, scimdata, out) ==
  /\ out.err.name \notin Validation => clock < MaxOps
  /\ clock' = IF out.err.name \in Validation THEN clock ELSE clock + 1
  /\ nextUuid' = IF out.err.name \in Validation THEN nextUuid ELSE nextUuid + 1
  /\ last' = Call(op, baseEntity, "", scimdata, out.err, out.result)
  /\ pre' = Stores
  /\ okUpdates' = IF out.err = NoErr THEN Put(okUpdates, out.result.id, 0) ELSE okUpdates
  /\ scen' = IF op = "createUser" /\ out.err = NoErr /\ scimdata = [userName |-> "bjensen"]
             THEN [phase |-> 1, id |-> out.result.id]
             ELSE NoScen
  /\ UNCHANGED calls

\* the bookkeeping of a modify call with outcome out
Modified(op, baseEntity, id, scimdata, out) ==
  /\ out.err.name \notin Validation => clock < MaxOps
  /\ clock' = IF out.err.name \in Validation THEN clock ELSE clock + 1
  /\ last' = Call(op, baseEntity, id, scimdata, out.err, out.result)
  /\ pre' = Stores
  /\ okUpdates' = IF out.err = NoErr /\ Has(okUpdates, id)
                  THEN Put(okUpdates, id, okUpdates[id] + 1)
                  ELSE okUpdates
  /\ scen' = IF op = "modifyUser" /\ out.err = NoErr /\ id = scen.id
             THEN IF scen.phase = 1 /\ scimdata = [entitlements |-> <<Add123>>]
                  THEN [scen EXCEPT !.phase = 2]
                  ELSE IF scen.phase = 2 /\ scimdata = [entitlements |-> <<Remove123>>]
                  THEN [scen EXCEPT !.phase = 3]
                  ELSE NoScen
             ELSE NoScen
  /\ UNCHANGED <<nextUuid, calls>>

\* the bookkeeping of a delete call with outcome out
Deleted(op, baseEntity, id, out) ==
  /\ out.err.name \notin Validation => clock < MaxOps
  /\ clock' = IF out.err.name \in Validation THEN clock ELSE clock + 1
  /\ last' = Call(op, baseEntity, id, EmptyObj, out.err, EmptyObj)
  /\ pre' = Stores
  /\ okUpdates' = IF out.err = NoErr /\ Has(okUpdates, id) THEN Del(okUpdates, id)
                  ELSE okUpdates
  /\ scen' = NoScen
  /\ UNCHANGED <<nextUuid, calls>>

-----------------------------------------------------------------------------
(* The handlers *)

\* new Date() read when a call starts
Now == 2 * (clock + 1)

\* the two readings new Date() of a create: the clock may move on between them
ClockReads == {[created |-> Now, lastModified |-> Now + late] : late \in {0, 1}}

createUser(baseEntity, scimdata) ==
  IF baseEntity \notin BaseEntities
  THEN Unsupported("createUser", baseEntity, "", scimdata)
  ELSE \E now \in ClockReads :
         LET out == Create(users[baseEntity], scimdata, "userName", "User", UserUnique,
                           getUuid(nextUuid + 1), now)
         IN /\ users' = [users EXCEPT ![baseEntity] = out.data]
            /\ Created("createUser", baseEntity, scimdata, out)
            /\ UNCHANGED <<groups, entitlements, userEntitlements, pluginEntitlements>>

deleteUser(baseEntity, id) ==
  IF baseEntity \notin BaseEntities
  THEN Unsupported("deleteUser", baseEntity, id, EmptyObj)
  ELSE LET out == Delete(users[baseEntity], id, "user")
       IN /\ users' = [users EXCEPT ![baseEntity] = out.data]
          /\ Deleted("deleteUser", baseEntity, id, out)
          /\ UNCHANGED <<groups, entitlements, userEntitlements, pluginEntitlements>>

modifyUser(baseEntity, id, scimdata) ==
  IF baseEntity \notin BaseEntities
  THEN Unsupported("modifyUser", baseEntity, id, scimdata)
  ELSE LET out == modifyUserSteps(users[baseEntity], id, scimdata, Now)
       IN /\ users' = [users EXCEPT ![baseEntity] = out.data]
          /\ Modified("modifyUser", baseEntity, id, scimdata, out)
          /\ UNCHANGED <<groups, entitlements, userEntitlements, pluginEntitlements>>

createGroup(baseEntity, scimdata) ==
  IF baseEntity \notin BaseEntities
  THEN Unsupported("createGroup", baseEntity, "", scimdata)
  ELSE \E now \in ClockReads :
         LET out == Create(groups[baseEntity], scimdata, "displayName", "Group",
                           GroupUnique, getUuid(nextUuid + 1), now)
         IN /\ groups' = [groups EXCEPT ![baseEntity] = out.data]
            /\ Created("createGroup", baseEntity, scimdata, out)
            /\ UNCHANGED <<users, entitlements, userEntitlements, pluginEntitlements>>

deleteGroup(baseEntity, id) ==
  IF baseEntity \notin BaseEntities
  THEN Unsupported("deleteGroup", baseEntity, id, EmptyObj)
  ELSE LET out == Delete(groups[baseEntity], id, "group")
       IN /\ groups' = [groups EXCEPT ![baseEntity] = out.data]
          /\ Deleted("deleteGroup", baseEntity, id, out)
          /\ UNCHANGED <<users, entitlements, userEntitlements, pluginEntitlements>>

modifyGroup(baseEntity, id, scimdata) ==
  IF baseEntity \notin BaseEntities
  THEN Unsupported("modifyGroup", baseEntity, id, scimdata)
  ELSE LET out == modifyGroupSteps(groups[baseEntity], id, scimdata, Now)
       IN /\ groups' = [groups EXCEPT ![baseEntity] = out.data]
          /\ Modified("modifyGroup", baseEntity, id, scimdata, out)
          /\ UNCHANGED <<users, entitlements, userEntitlements, pluginEntitlements>>

\* the bookkeeping of a get call with outcome out: nothing but last and pre;
\* last.arg is getObj as the caller passed it, last.result the same object as
\* the handler left it
Got(op, baseEntity, getObj, out) ==
  /\ last' = [Call(op, baseEntity, "", getObj, out.err, out.getObj) EXCEPT
                !.Resources = out.Resources, !.totalResults = out.totalResults]
  /\ pre' = Stores
  /\ UNCHANGED <<users, groups, entitlements, userEntitlements, pluginEntitlements,
                 nextUuid, clock, okUpdates, scen, calls>>

\* getUsers that writes an empty grants list into every user it has read
getUsersStamping(baseEntity, getObj) ==
  /\ baseEntity \in BaseEntities
  /\ LET out == Query(users[baseEntity], getObj, {"id", "userName", "externalId"})
     IN last' = [Call("getUsers", baseEntity, "", getObj, out.err, out.getObj) EXCEPT
                   !.Resources = out.Resources, !.totalResults = out.totalResults]
  /\ pre' = Stores
  /\ users' = [users EXCEPT ![baseEntity] =
                 [i \in 1..Len(@) |-> Put(@[i], "entitlements", <<>>)]]
  /\ UNCHANGED <<groups, entitlements, userEntitlements, pluginEntitlements,
                 nextUuid, clock, okUpdates, scen, calls>>

getUsers(baseEntity, getObj) ==
  IF baseEntity \notin BaseEntities
  THEN Unsupported("getUsers", baseEntity, "", getObj)
  ELSE Got("getUsers", baseEntity, getObj,
           Query(users[baseEntity], getObj, {"id", "userName", "externalId"}))

getGroups(baseEntity, getObj) ==
  IF baseEntity \notin BaseEntities
  THEN Unsupported("getGroups", baseEntity, "", getObj)
  ELSE Got("getGroups", baseEntity, getObj,
           Query(groups[baseEntity], getObj, {"id", "displayName", "externalId"}))

getEntitlements(baseEntity, getObj) ==
  IF baseEntity \notin BaseEntities
  THEN Unsupported("getEntitlements", baseEntity, "", getObj)
  ELSE Got("getEntitlements", baseEntity, getObj,
           Query(entitlements[baseEntity], getObj, {"id", "displayName", "type"}))

-----------------------------------------------------------------------------
(* EntitlementsPlugin: the in-memory variant *)

\* the filter callback of EntitlementsPlugin.getEntitlements
PluginKeeps(entitlement, getObj) ==
  LET value == IF Has(entitlement, getObj.attribute) THEN entitlement[getObj.attribute]
               ELSE "undefined"
      text == Chars(value)
      v == Chars(getObj.value)
  IN CASE getObj.operator = "eq" -> Has(entitlement, getObj.attribute) /\ value = getObj.value
       [] getObj.operator = "ne" -> ~Has(entitlement, getObj.attribute) \/ value # getObj.value
       [] getObj.operator = "co" -> Includes(value, getObj.value)
       [] getObj.operator = "sw" -> Len(v) <= Len(text) /\ SubSeq(text, 1, Len(v)) = v
       [] getObj.operator = "ew" ->
            Len(v) <= Len(text) /\ SubSeq(text, Len(text) - Len(v) + 1, Len(text)) = v
       [] OTHER -> TRUE

PluginQuery(arr, getObj) ==
  LET filtered == IF ~Falsy(getObj, "attribute") /\ ~Falsy(getObj, "operator")
                     /\ ~Falsy(getObj, "value")
                  THEN SelectSeq(arr, LAMBDA e : PluginKeeps(e, getObj))
                  ELSE arr
  IN [err |-> NoErr, Resources |-> Paginate(filtered, getObj).Resources,
      totalResults |-> Paginate(filtered, getObj).totalResults, getObj |-> getObj]

pluginGetEntitlements(getObj) ==
  Got("EntitlementsPlugin.getEntitlements", "", getObj, PluginQuery(pluginEntitlements, getObj))

modifyEntitlement(baseEntity, id, scimdata) ==
  IF baseEntity \notin BaseEntities
  THEN Unsupported("modifyEntitlement", baseEntity, id, scimdata)
  ELSE LET out == modifyEntitlementSteps(entitlements[baseEntity], id, scimdata)
       IN /\ entitlements' = [entitlements EXCEPT ![baseEntity] = out.data]
          /\ Modified("modifyEntitlement", baseEntity, id, scimdata, out)
          /\ UNCHANGED <<users, groups, userEntitlements, pluginEntitlements>>

pluginModifyEntitlement(id, scimdata) ==
  LET out == pluginModifyEntitlementSteps(pluginEntitlements, id, scimdata)
  IN /\ pluginEntitlements' = out.data
     /\ Modified("EntitlementsPlugin.modifyEntitlement", "", id, scimdata, out)
     /\ UNCHANGED <<users, groups, entitlements, userEntitlements>>

\* this.userEntitlements.get(userId) || []
listUserEntitlements(userId) ==
  IF Has(userEntitlements, userId) THEN userEntitlements[userId] ELSE <<>>

\* the grant EntitlementsPlugin.getUsers shows for an id of the mapping
Shown(entId) ==
  LET hits == {i \in 1..Len(pluginEntitlements) : pluginEntitlements[i].id = entId}
      entitlement == pluginEntitlements[CHOOSE i \in hits : \A j \in hits : i <= j]
  IN [value |-> entId,
      display |-> IF hits = {} \/ Falsy(entitlement, "displayName") THEN entId
                  ELSE entitlement.displayName,
      type |-> IF hits = {} \/ Falsy(entitlement, "type") THEN "License"
               ELSE entitlement.type]

\* EntitlementsPlugin.getUsers: result is what super.getUsers gave; every
\* resource of it gets the grants of the mapping as its entitlements
pluginGetUsers(getObj, result) ==
  Got("EntitlementsPlugin.getUsers", "", getObj,
      [err |-> NoErr,
       Resources |-> [i \in 1..Len(result.Resources) |->
                        LET user == result.Resources[i]
                            userEnts == listUserEntitlements(user.id)
                        IN Put(user, "entitlements",
                               [j \in 1..Len(userEnts) |-> Shown(userEnts[j])])],
       totalResults |-> result.totalResults,
       getObj |-> getObj])

\* assignEntitlementToUser without its includes test
AssignUnchecked(userId, entitlementId) ==
  [map |-> Put(userEntitlements, userId,
               Append(listUserEntitlements(userId), entitlementId)),
   ret |-> TRUE]

\* the outcome of assignEntitlementToUser: the map after it and the value returned
Assign(userId, entitlementId) ==
  LET userEnts == listUserEntitlements(userId)
  IN IF entitlementId \notin Range(userEnts)
     THEN [map |-> Put(userEntitlements, userId, Append(userEnts, entitlementId)),
           ret |-> TRUE]
     ELSE [map |-> userEntitlements, ret |-> FALSE]

\* the outcome of removeEntitlementFromUser
Unassign(userId, entitlementId) ==
  LET userEnts == listUserEntitlements(userId)
      hits == {i \in 1..Len(userEnts) : userEnts[i] = entitlementId}
  IN IF hits # {}
     THEN LET index == CHOOSE i \in hits : \A j \in hits : i <= j
          IN [map |-> Put(userEntitlements, userId,
                          SubSeq(userEnts, 1, index - 1)
                            \o SubSeq(userEnts, index + 1, Len(userEnts))),
              ret |-> TRUE]
     ELSE [map |-> userEntitlements, ret |-> FALSE]

PluginCalled(op, userId, entitlementId, out) ==
  /\ userEntitlements' = out.map
  /\ last' = [Call(op, "", userId, [value |-> entitlementId], NoErr, EmptyObj) EXCEPT
                !.ret = out.ret]
  /\ pre' = Stores
  /\ UNCHANGED <<users, groups, entitlements, pluginEntitlements, nextUuid, clock,
                 okUpdates, scen, calls>>

assignEntitlementToUser(userId, entitlementId) ==
  PluginCalled("assignEntitlementToUser", userId, entitlementId,
               Assign(userId, entitlementId))

removeEntitlementFromUser(userId, entitlementId) ==
  PluginCalled("removeEntitlementFromUser", userId, entitlementId,
               Unassign(userId, entitlementId))

\* scimdata.entitlements when it is an array, else nothing to loop over
Entries(scimdata) ==
  IF Has(scimdata, "entitlements") THEN scimdata.entitlements ELSE <<>>

Awaited(entitlement) ==
  Has(entitlement, "operation") /\ entitlement.operation \in {"add", "remove"}

\* The loop of EntitlementsPlugin.modifyUser runs on without a break over the
\* entries it has no branch for: the index of the first entry from from on that
\* it awaits a call for, or one past the end when it gets to super.modifyUser.
NextAwait(entries, from) ==
  LET ahead == {k \in from..Len(entries) : Awaited(entries[k])}
  IN IF ahead = {} THEN Len(entries) + 1
     ELSE CHOOSE k \in ahead : \A j \in ahead : k <= j

\* EntitlementsPlugin.modifyUser from entry from on, up to its next await: the
\* call made for that entry has run to its end (assignEntitlementToUser and
\* removeEntitlementFromUser have no await of their own), or the loop is over
\* and super.modifyUser has been called. rest is the calls that wait besides.
RunToAwait(id, scimdata, from, rest) ==
  LET entries == Entries(scimdata)
      k == NextAwait(entries, from)
  IN /\ calls' = Append(rest, [id |-> id, scimdata |-> scimdata, at |-> k])
     /\ pre' = Stores
     /\ UNCHANGED <<users, groups, entitlements, pluginEntitlements, nextUuid, clock,
                    okUpdates, scen>>
     /\ IF k > Len(entries)
        THEN /\ userEntitlements' = userEntitlements
             /\ last' = Call("super.modifyUser", "", id, scimdata, NoErr, EmptyObj)
        ELSE LET add == entries[k].operation = "add"
                 out == IF add THEN Assign(id, entries[k].value)
                        ELSE Unassign(id, entries[k].value)
             IN /\ userEntitlements' = out.map
                /\ last' = [Call(IF add THEN "assignEntitlementToUser"
                                 ELSE "removeEntitlementFromUser",
                                 "", id, [value |-> entries[k].value], NoErr, EmptyObj)
                              EXCEPT !.ret = out.ret]

Without(i) == SubSeq(calls, 1, i - 1) \o SubSeq(calls, i + 1, Len(calls))

\* a caller calls EntitlementsPlugin.modifyUser: it runs up to its first await
pluginModifyUser(id, scimdata) ==
  /\ Len(calls) < MaxCalls
  /\ RunToAwait(id, scimdata, 1, calls)

\* the call that waits at calls[i] for an assign or remove goes on
pluginModifyUserResume(i) ==
  /\ calls[i].at <= Len(Entries(calls[i].scimdata))
  /\ RunToAwait(calls[i].id, calls[i].scimdata, calls[i].at + 1, Without(i))

\* the call that waits at calls[i] for super.modifyUser returns what that gave
pluginModifyUserReturn(i) ==
  /\ calls[i].at > Len(Entries(calls[i].scimdata))
  /\ calls' = Without(i)
  /\ last' = Call("EntitlementsPlugin.modifyUser", "", calls[i].id, calls[i].scimdata,
                  NoErr, EmptyObj)
  /\ pre' = Stores
  /\ UNCHANGED <<users, groups, entitlements, userEntitlements, pluginEntitlements,
                 nextUuid, clock, okUpdates, scen>>

\* plugin start with the configuration entity, before any call: the outcome
\* of the loop
initialize(entity) ==
  /\ last.op = ""
  /\ last' = Call("initialize", "", "", [entity |-> entity], NoErr,
                  [bound |-> Bind(entity, <<>>, <<>>)])
  /\ pre' = Stores
  /\ UNCHANGED <<users, groups, entitlements, userEntitlements, pluginEntitlements,
                 nextUuid, clock, okUpdates, scen, calls>>

-----------------------------------------------------------------------------
(* Specifications *)

UserIds(baseEntity) ==
  IF baseEntity \in BaseEntities THEN IdsOf(users[baseEntity]) \cup {NoId} ELSE {NoId}

GroupIds(baseEntity) ==
  IF baseEntity \in BaseEntities THEN IdsOf(groups[baseEntity]) \cup {NoId} ELSE {NoId}

\* users of the seeded baseEntity and of an unknown one: names, plain
\* attributes, identifiers
NextUsers ==
  \E baseEntity \in {"b", UnknownEntity} :
    \/ \E scimdata \in NameData : createUser(baseEntity, scimdata)
    \/ \E id \in UserIds(baseEntity) : deleteUser(baseEntity, id)
    \/ \E id \in UserIds(baseEntity), scimdata \in RenameData :
         modifyUser(baseEntity, id, scimdata)

\* groups of the seeded baseEntity and of an unknown one
NextGroups ==
  \E baseEntity \in {"b", UnknownEntity} :
    \/ \E scimdata \in GroupData : createGroup(baseEntity, scimdata)
    \/ \E id \in GroupIds(baseEntity) : deleteGroup(baseEntity, id)
    \/ \E id \in GroupIds(baseEntity), scimdata \in GroupPatchData :
         modifyGroup(baseEntity, id, scimdata)

UserCalls == {"createUser", "deleteUser", "modifyUser"}

GroupCalls == {"createGroup", "deleteGroup", "modifyGroup"}

\* The user handlers leave groups unchanged and the group handlers leave users
\* unchanged, so the stores a mixed behaviour reaches are pairs of stores that
\* behaviours of one kind reach: a behaviour here stays with the kind of its
\* first call.
NextStore ==
  \/ last.op \notin GroupCalls /\ NextUsers
  \/ last.op \notin UserCalls /\ NextGroups

SpecStore == Init /\ [][NextStore]_vars

\* users of the baseEntity that starts empty: grants
NextGrants ==
  \E baseEntity \in {"a"} :
    \/ \E scimdata \in {[userName |-> "bjensen"], LoadedData} : createUser(baseEntity, scimdata)
    \/ \E id \in UserIds(baseEntity), scimdata \in GrantData :
         modifyUser(baseEntity, id, scimdata)

SpecGrants == Init /\ [][NextGrants]_vars

\* getObj: the paging of an unfiltered query
PageData ==
  {EmptyObj}
    \cup {[startIndex |-> i] : i \in {0, 2}}
    \cup {[count |-> c] : c \in {0, 1}}
    \cup {[startIndex |-> i, count |-> c] : i \in {-1, 1, 2, 5}, c \in {0, 1, 2, 10}}

\* getObj: filters with the default paging, and one paged filter
FilterData ==
  {[attribute |-> "userName", operator |-> "eq", value |-> "BJENSEN"],
   [attribute |-> "displayName", operator |-> "eq", value |-> "Pro License"],
   [attribute |-> "type", operator |-> "ne", value |-> "Support", startIndex |-> 1, count |-> 2],
   [attribute |-> "userName", operator |-> "pr", value |-> ""],
   [attribute |-> "type", operator |-> "eq", value |-> "License"],
   [attribute |-> "userName", operator |-> "eq", value |-> "b.ensen"],
   [attribute |-> "id", operator |-> "eq", value |-> "bjensen"],
   [attribute |-> "id", operator |-> "gt", value |-> "bjensen"],
   [attribute |-> "id", operator |-> "le", value |-> "entitlement-456"],
   [attribute |-> "displayName", operator |-> "xx", value |-> "Admins"],
   [rawFilter |-> "userName eq \"bjensen\" and title pr"]}

\* what super.getUsers hands to EntitlementsPlugin.getUsers: nothing, users
\* with and without an entry in the mapping, a user that has entitlements
SuperData ==
  {[Resources |-> <<>>, totalResults |-> 0],
   [Resources |-> <<[id |-> "user1", userName |-> "user1"], [id |-> "user3"]>>,
    totalResults |-> 2],
   [Resources |-> <<[id |-> "user2", entitlements |-> <<Grant123>>]>>, totalResults |-> 5]}

\* the get handlers of the seeded baseEntity, with users created and deleted
NextQuery ==
  \/ \E scimdata \in {[userName |-> "alice"]} : createUser("b", scimdata)
  \/ \E id \in UserIds("b") : deleteUser("b", id)
  \/ \E baseEntity \in {"b", UnknownEntity}, getObj \in PageData \cup FilterData :
       \/ getUsers(baseEntity, getObj)
       \/ getGroups(baseEntity, getObj)
       \/ getEntitlements(baseEntity, getObj)
  \/ \E getObj \in PageData \cup FilterData : pluginGetEntitlements(getObj)
  \/ \E getObj \in {EmptyObj}, result \in SuperData : pluginGetUsers(getObj, result)

SpecQuery == Init /\ [][NextQuery]_vars

\* creates with and without an id of the caller's, and deletes
NextCreate ==
  \E baseEntity \in BaseEntities :
    \/ \E scimdata \in {[userName |-> "alice"], LoadedData} :
         createUser(baseEntity, scimdata)
    \/ \E scimdata \in {[displayName |-> "Admins"], LoadedGroup} :
         createGroup(baseEntity, scimdata)
    \/ \E id \in UserIds(baseEntity) : deleteUser(baseEntity, id)

SpecCreate == Init /\ [][NextCreate]_vars

\* modifyEntitlement payloads: one field, two fields of which one is the empty
\* string, and one with an id of the caller's
EntitlementData ==
  {[displayName |-> "Gold License"],
   [type |-> "Permission", description |-> ""],
   [description |-> "Changed", id |-> "other"]}

EntitlementIds == {"entitlement-123", "entitlement-789", NoId}

\* the entitlement field update of the store and of the in-memory variant
NextEntitlements ==
  \/ \E baseEntity \in {"b", UnknownEntity}, id \in EntitlementIds,
        scimdata \in EntitlementData : modifyEntitlement(baseEntity, id, scimdata)
  \/ \E id \in EntitlementIds, scimdata \in EntitlementData :
       pluginModifyEntitlement(id, scimdata)

SpecEntitlements == Init /\ [][NextEntitlements]_vars

PluginUsers == {"user1", "user2", "user3"}

PluginEntitlementIds == {"entitlement-123", "entitlement-456"}

\* the in-memory mapping of EntitlementsPlugin
NextPlugin ==
  \E userId \in PluginUsers, entitlementId \in PluginEntitlementIds :
    \/ assignEntitlementToUser(userId, entitlementId)
    \/ removeEntitlementFromUser(userId, entitlementId)

SpecPlugin == Init /\ [][NextPlugin]_vars

\* one configuration of a baseEntity: dbname <<>> and persistence TRUE stand
\* for a key that is not set
Entity(baseEntity, dbname, persistence) ==
  LET named == IF dbname = <<>> THEN [baseEntity |-> baseEntity]
               ELSE [baseEntity |-> baseEntity, dbname |-> dbname]
  IN IF persistence THEN named ELSE Put(named, "persistence", FALSE)

DbnameData == {<<>>, <<"x.db">>, <<".", "x.db">>, <<"y.db">>}

\* config.entity with two baseEntity keys
EntityData ==
  {<<Entity("a", d1, p1), Entity("b", d2, p2)>> :
     d1 \in DbnameData, p1 \in BOOLEAN, d2 \in DbnameData, p2 \in BOOLEAN}

\* plugin start, and calls for either baseEntity and for an unknown one
NextTenants ==
  \/ \E entity \in EntityData : initialize(entity)
  \/ \E baseEntity \in BaseEntities \cup {UnknownEntity} :
       \/ \E scimdata \in {[userName |-> "alice"]} : createUser(baseEntity, scimdata)
       \/ \E id \in UserIds(baseEntity) : deleteUser(baseEntity, id)
       \/ \E id \in GroupIds(baseEntity) : deleteGroup(baseEntity, id)
       \/ \E scimdata \in {[displayName |-> "Gold License"]} :
            modifyEntitlement(baseEntity, "entitlement-123", scimdata)
       \/ \E getObj \in {EmptyObj} : getUsers(baseEntity, getObj)

SpecTenants == Init /\ [][NextTenants]_vars

\* the patches of EntitlementsPlugin.modifyUser
PluginBatches == {<<Add123, Remove123>>, <<Remove123, Add123>>, <<Replace123, Add456>>}

\* calls for one user of the in-memory mapping, in any interleaving
NextConcurrent ==
  \/ \E userId \in {"user1"}, entitlementId \in PluginEntitlementIds :
       \/ assignEntitlementToUser(userId, entitlementId)
       \/ removeEntitlementFromUser(userId, entitlementId)
  \/ \E userId \in {"user1"}, b \in PluginBatches :
       pluginModifyUser(userId, [entitlements |-> b])
  \/ \E i \in 1..Len(calls) :
       \/ pluginModifyUserResume(i)
       \/ pluginModifyUserReturn(i)

SpecConcurrent == Init /\ [][NextConcurrent]_vars

\* filtered queries of the seeded baseEntity, and the caller passing the
\* object of its last query once more, with users created and deleted between
NextFilter ==
  \/ \E scimdata \in {[userName |-> "alice"]} : createUser("b", scimdata)
  \/ \E id \in UserIds("b") : deleteUser("b", id)
  \/ \E getObj \in FilterData :
       \/ getUsers("b", getObj)
       \/ getGroups("b", getObj)
       \/ getEntitlements("b", getObj)
  \/ /\ last.op = "getUsers"
     /\ getUsers(last.baseEntity, last.result)
  \/ /\ last.op = "getGroups"
     /\ getGroups(last.baseEntity, last.result)
  \/ /\ last.op = "getEntitlements"
     /\ getEntitlements(last.baseEntity, last.result)

SpecFilter == Init /\ [][NextFilter]_vars

\* an add entry that supplies an empty display and an empty type
AddBlank == [value |-> "entitlement-456", operation |-> "add", display |-> "", type |-> ""]

\* grants added to the seeded users, and entitlement fields updated after
NextSnapshot ==
  \E baseEntity \in {"b"} :
    \/ \E id \in UserIds(baseEntity), b \in {<<Add123>>, <<Add456>>, <<AddBlank>>} :
         modifyUser(baseEntity, id, [entitlements |-> b])
    \/ \E id \in EntitlementIds, scimdata \in EntitlementData :
         modifyEntitlement(baseEntity, id, scimdata)

SpecSnapshot == Init /\ [][NextSnapshot]_vars

PluginCalls ==
  {"assignEntitlementToUser", "removeEntitlementFromUser", "super.modifyUser",
   "EntitlementsPlugin.modifyUser"}

\* Patches of the grants, one at a time: modifyUser of the store on users with
\* and without grants, and EntitlementsPlugin.modifyUser on the mapping, each
\* call run to its end before the next starts. The two work on different
\* state, so a behaviour stays with the one of its first call.
NextBatch ==
  \/ /\ last.op \notin PluginCalls
     /\ NextGrants
  \/ /\ last.op \notin UserCalls
     /\ \/ /\ calls = <<>>
           /\ \E userId \in PluginUsers, b \in PluginBatches :
                pluginModifyUser(userId, [entitlements |-> b])
        \/ \E i \in 1..Len(calls) :
             \/ pluginModifyUserResume(i)
             \/ pluginModifyUserReturn(i)

SpecBatch == Init /\ [][NextBatch]_vars

\* every handler with every input
Next ==
  \/ \E baseEntity \in BaseEntities \cup {UnknownEntity} :
       \/ \E scimdata \in NameData \cup {LoadedData} : createUser(baseEntity, scimdata)
       \/ \E id \in UserIds(baseEntity) : deleteUser(baseEntity, id)
       \/ \E id \in UserIds(baseEntity), scimdata \in RenameData \cup GrantData :
            modifyUser(baseEntity, id, scimdata)
       \/ \E scimdata \in GroupData \cup {LoadedGroup} : createGroup(baseEntity, scimdata)
       \/ \E id \in GroupIds(baseEntity) : deleteGroup(baseEntity, id)
       \/ \E id \in GroupIds(baseEntity), scimdata \in GroupPatchData :
            modifyGroup(baseEntity, id, scimdata)
       \/ \E getObj \in PageData \cup FilterData :
            \/ getUsers(baseEntity, getObj)
            \/ getGroups(baseEntity, getObj)
            \/ getEntitlements(baseEntity, getObj)
       \/ \E id \in EntitlementIds, scimdata \in EntitlementData :
            modifyEntitlement(baseEntity, id, scimdata)
  \/ \E getObj \in PageData \cup FilterData : pluginGetEntitlements(getObj)
  \/ \E getObj \in {EmptyObj}, result \in SuperData : pluginGetUsers(getObj, result)
  \/ \E id \in EntitlementIds, scimdata \in EntitlementData :
       pluginModifyEntitlement(id, scimdata)
  \/ \E userId \in PluginUsers, entitlementId \in PluginEntitlementIds :
       \/ assignEntitlementToUser(userId, entitlementId)
       \/ removeEntitlementFromUser(userId, entitlementId)
  \/ \E entity \in EntityData : initialize(entity)
  \/ \E userId \in PluginUsers, b \in PluginBatches :
       pluginModifyUser(userId, [entitlements |-> b])
  \/ \E i \in 1..Len(calls) :
       \/ pluginModifyUserResume(i)
       \/ pluginModifyUserReturn(i)

Spec == Init /\ [][Next]_vars

-----------------------------------------------------------------------------
(* Properties *)

Succeeded == last.op # "" /\ last.err = NoErr

\* no two documents of coll hold the same value under key k
NoDup(coll, k) ==
  \A i, j \in 1..Len(coll) :
    (i # j /\ Has(coll[i], k) /\ Has(coll[j], k)) => coll[i][k] # coll[j][k]

\* the collection of store st that the last call works on
Target(st) ==
  IF last.op \in UserCalls \cup {"getUsers"} THEN st.users[last.baseEntity]
  ELSE IF last.op \in GroupCalls \cup {"getGroups"} THEN st.groups[last.baseEntity]
  ELSE st.entitlements[last.baseEntity]

\* the mandatory attribute of the kind the last call works on
NameKey == IF last.op \in UserCalls THEN "userName" ELSE "displayName"

Doc(coll, id) == coll[FindIdx(coll, "id", id)]

IsTag(v) == \E n \in 0..(MaxOps + 1) : v = Tag(n)

\* the number the tag W/"n" carries
TagNumber(v) == CHOOSE n \in 0..(MaxOps + 1) : v = Tag(n)

\* C1: in every reachable state no two users of a baseEntity have the same
\* userName and no two groups the same displayName.
C1_NamesUnique ==
  \A e \in BaseEntities : NoDup(users[e], "userName") /\ NoDup(groups[e], "displayName")

\* C2: createUser with a userName that a stored user of the baseEntity has, and
\* createGroup with a stored displayName, fail with the error named
\* 'uniqueness' that carries the value, and insert nothing.
C2_DuplicateCreateRejected ==
  ( /\ last.op \in {"createUser", "createGroup"}
    /\ last.baseEntity \in BaseEntities
    /\ ~Falsy(last.arg, NameKey)
    /\ FindIdx(Target(pre), NameKey, last.arg[NameKey]) # 0 )
  => ( /\ last.err.name = "uniqueness"
       /\ last.err.value = last.arg[NameKey]
       /\ Stores = pre )

\* C2 witness: a createUser of a stored userName has been rejected.
C2_Witness ==
  /\ last.op = "createUser"
  /\ last.err.name = "uniqueness"
  /\ FindIdx(pre.users[last.baseEntity], "userName", last.arg.userName) # 0

\* C3: a successful update takes the tag W/"n" to W/"n+1", and a record
\* created by the handlers carries W/"k+1" after k successful updates.
C3_VersionCountsUpdates ==
  /\ ( /\ last.op \in {"modifyUser", "modifyGroup"}
       /\ Succeeded
       /\ Has(Doc(Target(pre), last.id), "meta")
       /\ IsTag(Doc(Target(pre), last.id).meta.version) )
     => Doc(Target(Stores), last.id).meta.version
          = Tag(TagNumber(Doc(Target(pre), last.id).meta.version) + 1)
  /\ \A e \in BaseEntities :
       \A coll \in {users[e], groups[e]} :
         \A i \in 1..Len(coll) :
           Has(okUpdates, coll[i].id)
             => Has(coll[i], "meta") /\ coll[i].meta.version = Tag(okUpdates[coll[i].id] + 1)

\* C4: after a successful update of a record whose version tag was missing or
\* malformed, or that had no meta at all, the record's tag is W/"1".
C4_MissingTagCountsAsZero ==
  ( /\ last.op \in {"modifyUser", "modifyGroup"}
    /\ Succeeded
    /\ \/ ~Has(Doc(Target(pre), last.id), "meta")
       \/ ~Has(Doc(Target(pre), last.id).meta, "version")
       \/ ~IsTag(Doc(Target(pre), last.id).meta.version) )
  => ( /\ Has(Doc(Target(Stores), last.id), "meta")
       /\ Doc(Target(Stores), last.id).meta.version = Tag(1) )

\* the grants of the scenario's user
ScenGrants ==
  LET user == Doc(users["a"], scen.id)
  IN IF Has(user, "entitlements") THEN user.entitlements ELSE <<>>

ScenSteps ==
  /\ scen.phase = 1 => last.result.meta.version = Tag(1)
  /\ scen.phase = 2 => Len(ScenGrants) = 1 /\ ScenGrants[1].value = "entitlement-123"
  /\ scen.phase = 3 => ScenGrants = <<>>

\* C5 as stated: createUser {userName: bjensen} returns W/"1"; the patch that
\* adds entitlement-123 leaves exactly that grant; the patch that removes it
\* leaves no grant and the version W/"2".
C5_ScenarioAsStated ==
  /\ ScenSteps
  /\ scen.phase = 3 => Doc(users["a"], scen.id).meta.version = Tag(2)

\* C5 amended: the same scenario ends with no grant and the version W/"3",
\* the two patches being two updates.
C5_Scenario ==
  /\ ScenSteps
  /\ scen.phase = 3 => Doc(users["a"], scen.id).meta.version = Tag(3)

\* C5 witness: the scenario has run to its end.
C5_Witness == scen.phase = 3 /\ last.op = "modifyUser" /\ Succeeded

\* C6: modifyUser and modifyGroup with an id that no stored record has fail
\* with notFound and leave every collection as it was.
C6_UpdateOfAbsentId ==
  ( /\ last.op \in {"modifyUser", "modifyGroup"}
    /\ last.baseEntity \in BaseEntities
    /\ last.id \notin IdsOf(Target(pre)) )
  => ( /\ last.err.name = "notFound"
       /\ last.err.value = last.id
       /\ Stores = pre )

\* C6 witness: a modifyUser of an absent id has failed.
C6_Witness ==
  /\ last.op = "modifyUser"
  /\ last.baseEntity \in BaseEntities
  /\ last.id \notin IdsOf(pre.users[last.baseEntity])
  /\ last.err.name = "notFound"

\* C7: a call that fails leaves every stored record as it was.
C7_FailureChangesNothing == Failed => Stores = pre

\* the number of grants of the list that carry value v
CountValue(grants, v) == Cardinality({i \in 1..Len(grants) : grants[i].value = v})

GrantsOf(user) == IF Has(user, "entitlements") THEN user.entitlements ELSE <<>>

\* the values an entry of the batch adds, and those it removes
Added(batch) ==
  {batch[i].value : i \in {j \in 1..Len(batch) :
                             Has(batch[j], "operation") /\ batch[j].operation = "add"}}

Removed(batch) ==
  {batch[i].value : i \in {j \in 1..Len(batch) :
                             Has(batch[j], "operation") /\ batch[j].operation = "remove"}}

\* C8: after a patch that adds v (once or twice, for the first time or again)
\* and does not remove it the user has exactly one grant of v; a patch that
\* only removes a v the user does not hold raises no error and leaves the
\* grants as they were; assignEntitlementToUser returns true exactly when the
\* id was not assigned and removeEntitlementFromUser exactly when it was.
C8_GrantIdempotent ==
  /\ ( /\ last.op = "modifyUser"
       /\ last.baseEntity \in BaseEntities
       /\ last.id \in IdsOf(pre.users[last.baseEntity])
       /\ Has(last.arg, "entitlements") )
     => LET batch == last.arg.entitlements
            before == GrantsOf(Doc(pre.users[last.baseEntity], last.id))
            after == GrantsOf(Doc(users[last.baseEntity], last.id))
        IN /\ \A v \in Added(batch) \ Removed(batch) : CountValue(after, v) = 1
           /\ ( /\ Added(batch) = {}
                /\ \A v \in Removed(batch) : CountValue(before, v) = 0 )
              => Succeeded /\ after = before
  /\ last.op = "assignEntitlementToUser"
       => last.ret = (last.arg.value \notin
                        Range(IF Has(pre.userEntitlements, last.id)
                              THEN pre.userEntitlements[last.id] ELSE <<>>))
  /\ last.op = "removeEntitlementFromUser"
       => last.ret = (last.arg.value \in
                        Range(IF Has(pre.userEntitlements, last.id)
                              THEN pre.userEntitlements[last.id] ELSE <<>>))

QueryCalls == {"getUsers", "getGroups", "getEntitlements"}

\* the documents of the target collection that the filter of the last query
\* selects, in stored order
Matches == Select(Target(pre), Translate(last.arg).getObj,
                  IF last.op = "getUsers" THEN {"id", "userName", "externalId"}
                  ELSE IF last.op = "getGroups" THEN {"id", "displayName", "externalId"}
                  ELSE {"id", "displayName", "type"}).arr

\* the elements of arr at the zero-based positions [from, from + count)
Window(arr, from, count) ==
  IF count <= 0 \/ from >= Len(arr) THEN <<>>
  ELSE SubSeq(arr, from + 1, Min(from + count, Len(arr)))

SuppliedStart == IF Has(last.arg, "startIndex") THEN last.arg.startIndex ELSE 1

SuppliedCount == IF Has(last.arg, "count") THEN last.arg.count ELSE 100

\* C9: Resources is the slice of the match list at the zero-based positions
\* [max(0, startIndex-1), max(0, startIndex-1)+count), the defaults 1 and 100
\* standing in only for a startIndex or count that was not supplied.
C9_ResourcesIsWindow ==
  (last.op \in QueryCalls /\ Succeeded)
    => last.Resources = Window(Matches, Max(0, SuppliedStart - 1), SuppliedCount)

\* C10: totalResults is the number of matches whatever the paging; with
\* startIndex = 1 and count = k < N on N matches Resources has min(k, N)
\* entries; a window past the end gives no Resources and the same totalResults.
C10_TotalResults ==
  (last.op \in QueryCalls /\ Succeeded)
    => /\ last.totalResults = Len(Matches)
       /\ ( /\ Has(last.arg, "startIndex") /\ last.arg.startIndex = 1
            /\ Has(last.arg, "count") /\ last.arg.count >= 0
            /\ last.arg.count < Len(Matches) )
          => Len(last.Resources) = Min(last.arg.count, Len(Matches))
       /\ (Has(last.arg, "startIndex") /\ last.arg.startIndex > Len(Matches))
          => last.Resources = <<>>

PluginGet == "EntitlementsPlugin.getEntitlements"

\* the identifying attributes of the kind the last query asks for
Identifying ==
  IF last.op = "getUsers" THEN {"id", "userName", "externalId"}
  ELSE IF last.op = "getGroups" THEN {"id", "displayName", "externalId"}
  ELSE {"id", "displayName", "type"}

\* the last call is a successful equals query on an identifying attribute
UniqueLookup ==
  /\ last.op \in QueryCalls
  /\ Succeeded
  /\ Has(last.arg, "operator") /\ last.arg.operator = "eq"
  /\ Has(last.arg, "attribute") /\ last.arg.attribute \in Identifying

\* C11: an equals query on an identifying attribute (user id, userName,
\* externalId; group id, displayName, externalId; entitlement id, displayName,
\* type) reports at most one record, totalResults <= 1, in every reachable state.
C11_UniqueLookupAtMostOne == UniqueLookup => last.totalResults <= 1

\* the two strings are equal up to the case of their letters
EqualsIgnoreCase(a, b) ==
  /\ Len(Chars(a)) = Len(Chars(b))
  /\ \A i \in 1..Len(Chars(a)) : ToLower(Chars(a)[i]) = ToLower(Chars(b)[i])

\* C12: an equals query on id returns exactly the records whose id is the
\* value; an equals query on another identifying attribute returns exactly the
\* records whose attribute equals the value up to letter case.
C12_EqualsFilterExact ==
  (UniqueLookup /\ ~Has(last.arg, "startIndex") /\ ~Has(last.arg, "count"))
    => LET attribute == last.arg.attribute
           value == last.arg.value
           expected ==
             SelectSeq(Target(pre), LAMBDA doc :
               /\ Has(doc, attribute)
               /\ IF attribute = "id" THEN doc[attribute] = value
                  ELSE EqualsIgnoreCase(doc[attribute], value))
       IN last.Resources = expected /\ last.totalResults = Len(expected)

\* C13: getUsers, getGroups and getEntitlements called with a rawFilter and
\* no operator fail with the error that says advanced filtering is not
\* supported and carries the rawFilter, return no Resources, and leave every
\* collection as it was.
C13_RawFilterRejected ==
  ( /\ last.op \in QueryCalls
    /\ last.baseEntity \in BaseEntities
    /\ ~Falsy(last.arg, "rawFilter")
    /\ Falsy(last.arg, "operator") )
  => ( /\ Failed
       /\ last.err.what = "not supporting advanced filtering"
       /\ last.err.value = last.arg.rawFilter
       /\ last.Resources = <<>> /\ last.totalResults = 0
       /\ Stores = pre )

\* C13 witness: each of the three get handlers has rejected a rawFilter.
C13_Witness ==
  /\ last.op = "getGroups"
  /\ last.baseEntity \in BaseEntities
  /\ ~Falsy(last.arg, "rawFilter")
  /\ Failed

\* the collection the last query reads
AllRecords == IF last.op = PluginGet THEN pre.pluginEntitlements ELSE Target(pre)

\* C14: a query without operator and without rawFilter matches every record:
\* totalResults is the size of the collection and Resources is the window
\* [max(0, startIndex-1), max(0, startIndex-1)+count) of all its records.
C14_NoFilterMatchesAll ==
  ( /\ last.op \in QueryCalls \cup {PluginGet}
    /\ Succeeded
    /\ Falsy(last.arg, "operator")
    /\ Falsy(last.arg, "rawFilter") )
  => ( /\ last.totalResults = Len(AllRecords)
       /\ last.Resources = Window(AllRecords, Max(0, SuppliedStart - 1), SuppliedCount) )

\* the operators the handlers rewrite, and those the spec lists as accepted
TranslatedOperators == {"co", "ge", "le", "sw", "ew"}

AcceptedOperators == {"eq", "ne", "co", "sw", "ew", "ge", "le", "gt", "lt"}

\* C15: a query whose operator is neither rewritten nor one of
\* validFilterOperators fails with invalidFilter, returns nothing and reads
\* nothing, whichever handler it goes to; the operators eq, ne, co, sw, ew, ge,
\* le, gt, lt never raise invalidFilter.
C15_OperatorValidation ==
  ( /\ last.op \in QueryCalls \cup {PluginGet}
    /\ last.op \in QueryCalls => last.baseEntity \in BaseEntities
    /\ ~Falsy(last.arg, "operator") )
  => ( /\ last.arg.operator \notin TranslatedOperators \cup validFilterOperators
         => ( /\ last.err.name = "invalidFilter"
              /\ last.Resources = <<>>
              /\ Stores = pre )
       /\ last.arg.operator \in AcceptedOperators => last.err.name # "invalidFilter" )

\* C16: createUser without a userName and createGroup without a displayName
\* fail with invalidValue and insert nothing, whatever else the payload or
\* the collection holds.
C16_NameRequired ==
  ( /\ last.op \in {"createUser", "createGroup"}
    /\ last.baseEntity \in BaseEntities
    /\ Falsy(last.arg, NameKey) )
  => ( /\ last.err.name = "invalidValue"
       /\ Stores = pre )

\* C16 witness: a createGroup without displayName has been rejected.
C16_Witness ==
  /\ last.op = "createGroup"
  /\ last.baseEntity \in BaseEntities
  /\ Falsy(last.arg, "displayName")
  /\ last.err.name = "invalidValue"

\* the record a successful create returns has a fresh id and version W/"1"
FreshRecord ==
  LET r == last.result
      coll == Target(Stores)
  IN /\ r.id # ""
     /\ r.id \notin IdsOf(Target(pre))
     /\ Cardinality({i \in 1..Len(coll) : coll[i].id = r.id}) = 1
     /\ Has(last.arg, "id") => r.id # last.arg.id
     /\ r.meta.version = Tag(1)

\* C17: the record a successful createUser or createGroup returns has a
\* non-empty id that no other record of the collection has and that replaces
\* any id of the caller's, and meta with version W/"1" and created equal to
\* lastModified.
C17_CreatedRecord ==
  (last.op \in {"createUser", "createGroup"} /\ Succeeded)
    => FreshRecord /\ last.result.meta.created = last.result.meta.lastModified

\* every collection but the one the last call works on is as it was
OthersKept ==
  /\ Stores.userEntitlements = pre.userEntitlements
  /\ Stores.pluginEntitlements = pre.pluginEntitlements
  /\ Stores.entitlements = pre.entitlements
  /\ \A e \in BaseEntities :
       /\ (e # last.baseEntity \/ last.op \notin UserCalls) => users[e] = pre.users[e]
       /\ (e # last.baseEntity \/ last.op \notin GroupCalls) => groups[e] = pre.groups[e]

\* C18: deleteUser and deleteGroup of an id no record has fail with notFound
\* and change nothing; of an id a record has they remove that record and no
\* other, after which an equals query on that id finds nothing and a delete
\* or a modify of that id fails with notFound.
C18_Delete ==
  (last.op \in {"deleteUser", "deleteGroup"} /\ last.baseEntity \in BaseEntities)
    => LET before == Target(pre)
           after == Target(Stores)
       IN IF last.id \notin IdsOf(before)
          THEN /\ last.err.name = "notFound"
               /\ last.err.value = last.id
               /\ Stores = pre
          ELSE /\ Succeeded
               /\ after = SelectSeq(before, LAMBDA doc : doc.id # last.id)
               /\ Len(after) = Len(before) - 1
               /\ OthersKept
               /\ Query(after, [attribute |-> "id", operator |-> "eq", value |-> last.id],
                        {"id"}).totalResults = 0
               /\ Delete(after, last.id, "user").err.name = "notFound"
               /\ modifyUserSteps(after, last.id, EmptyObj, 0).err.name = "notFound"
               /\ modifyGroupSteps(after, last.id, EmptyObj, 0).err.name = "notFound"

\* C18 witness: a delete has taken one record out of a collection of several.
C18_Witness ==
  /\ last.op = "deleteUser"
  /\ Succeeded
  /\ Len(pre.users[last.baseEntity]) >= 2
  /\ last.id = pre.users[last.baseEntity][1].id

\* the payload keys a modify call does not write as plain attributes
NotMerged ==
  {"id", "meta"} \cup (IF last.op = "modifyUser" THEN {"entitlements"} ELSE {})

\* C19: a successful modifyUser or modifyGroup stores the payload's value
\* under every payload key other than id, meta and the grants list of a user
\* patch, and keeps every stored attribute whose key the payload does not
\* hold; no modify call changes the record's id or meta.created.
C19_PayloadMerge ==
  ( /\ last.op \in {"modifyUser", "modifyGroup"}
    /\ last.baseEntity \in BaseEntities
    /\ last.id \in IdsOf(Target(pre)) )
  => /\ [i \in 1..Len(Target(Stores)) |-> Target(Stores)[i].id]
          = [i \in 1..Len(Target(pre)) |-> Target(pre)[i].id]
     /\ LET before == Doc(Target(pre), last.id)
            after == Doc(Target(Stores), last.id)
        IN /\ Succeeded
             => /\ \A k \in DOMAIN last.arg \ NotMerged :
                     Has(after, k) /\ after[k] = last.arg[k]
                /\ \A k \in DOMAIN before \ (DOMAIN last.arg \cup {"meta"}) :
                     Has(after, k) /\ after[k] = before[k]
           /\ Has(before, "meta")
                => Has(after, "meta") /\ after.meta.created = before.meta.created

\* C19 witness: a user with meta has taken a payload that holds a new
\* attribute next to an id and a meta of the caller's.
C19_Witness ==
  /\ last.op = "modifyUser"
  /\ Succeeded
  /\ Has(last.arg, "title") /\ Has(last.arg, "id") /\ Has(last.arg, "meta")
  /\ Has(Doc(pre.users[last.baseEntity], last.id), "meta")
  /\ Doc(users[last.baseEntity], last.id).title = last.arg.title

PluginModify == "EntitlementsPlugin.modifyEntitlement"

\* the entitlements the last entitlement field update works on, in store st
EntitlementsIn(st) ==
  IF last.op = PluginModify THEN st.pluginEntitlements
  ELSE st.entitlements[last.baseEntity]

\* entitlement e with the supplied fields of the payload written over it
Overwritten(e, scimdata) ==
  [k \in DOMAIN e \cup (DOMAIN scimdata \cap EntitlementFields) |->
     IF k \in EntitlementFields /\ Has(scimdata, k) THEN scimdata[k] ELSE e[k]]

\* C20: the entitlement field update, in the store and in the in-memory
\* variant, writes exactly the supplied fields among displayName, type and
\* description of the entitlement with the id and leaves its other fields and
\* every other entitlement as they were; for an id no entitlement has it fails
\* with notFound and changes nothing.
C20_EntitlementFieldUpdate ==
  ( /\ last.op \in {"modifyEntitlement", PluginModify}
    /\ last.op = "modifyEntitlement" => last.baseEntity \in BaseEntities )
  => LET before == EntitlementsIn(pre)
         after == EntitlementsIn(Stores)
     IN IF last.id \notin IdsOf(before)
        THEN last.err.name = "notFound" /\ Stores = pre
        ELSE /\ Succeeded
             /\ after = [i \in 1..Len(before) |->
                           IF before[i].id = last.id
                           THEN Overwritten(before[i], last.arg)
                           ELSE before[i]]
             /\ [Stores EXCEPT !.entitlements = pre.entitlements,
                               !.pluginEntitlements = pre.pluginEntitlements]
                  = pre


\* the calls that name a baseEntity
TenantCalls ==
  UserCalls \cup GroupCalls \cup QueryCalls \cup {"modifyEntitlement"}

\* the collections of every baseEntity but the one called are as before
OthersUntouched ==
  \A b \in BaseEntities \ {last.baseEntity} :
    /\ users[b] = pre.users[b]
    /\ groups[b] = pre.groups[b]
    /\ entitlements[b] = pre.entitlements[b]

\* the baseEntity keys that plugin start gave a database
BoundAt(bound) == {i \in 1..Len(bound) : bound[i].bound}

\* C21: a call for one baseEntity leaves the users, groups and entitlements of
\* every other baseEntity as they were; a call for a key without configuration
\* fails with the error that carries the key and leaves every collection as it
\* was; and plugin start never gives two configured keys the same store.
C21_TenantIsolation ==
  /\ last.op \in TenantCalls => OthersUntouched
  /\ (last.op \in TenantCalls /\ last.baseEntity \notin BaseEntities) =>
       /\ last.err = unsupported(last.baseEntity)
       /\ Stores = pre
  /\ last.op = "initialize" =>
       \A i, j \in BoundAt(last.result.bound) :
         i # j => Store(last.result.bound[i]) # Store(last.result.bound[j])

\* the calls alone: the baseEntity keys of the model are isolated
CallsIsolated ==
  /\ last.op \in TenantCalls => OthersUntouched
  /\ (last.op \in TenantCalls /\ last.baseEntity \notin BaseEntities) =>
       /\ last.err = unsupported(last.baseEntity)
       /\ Stores = pre

StepCalls == {"assignEntitlementToUser", "removeEntitlementFromUser"}

\* the list of the user of the last call, before it and after it
ListBefore ==
  IF Has(pre.userEntitlements, last.id) THEN pre.userEntitlements[last.id] ELSE <<>>

ListAfter == listUserEntitlements(last.id)

IdsOnce(list) == \A i, j \in 1..Len(list) : i # j => list[i] # list[j]

\* C29: however the calls of modifyUser, assignEntitlementToUser and
\* removeEntitlementFromUser for one user of the in-memory mapping interleave
\* at their awaits, no list of the mapping holds an id twice, and every assign
\* or remove step is one step: the list after it is the list as it was just
\* before it with the id appended when the list did not hold it, or with the
\* id taken out when it did, and the lists of the other users are as before.
C29_StepsAtomic ==
  /\ \A u \in DOMAIN userEntitlements : IdsOnce(userEntitlements[u])
  /\ last.op \in StepCalls =>
       /\ \A u \in DOMAIN pre.userEntitlements \ {last.id} :
            Has(userEntitlements, u) /\ userEntitlements[u] = pre.userEntitlements[u]
       /\ last.op = "assignEntitlementToUser" =>
            /\ last.ret = (last.arg.value \notin Range(ListBefore))
            /\ ListAfter = IF last.ret THEN Append(ListBefore, last.arg.value)
                            ELSE ListBefore
       /\ last.op = "removeEntitlementFromUser" =>
            /\ last.ret = (last.arg.value \in Range(ListBefore))
            /\ ListAfter = SelectSeq(ListBefore, LAMBDA e : e # last.arg.value)

\* two modifyUser calls wait at an await, one of them between its two entries,
\* and an assign step has just added an id
C29_Witness ==
  /\ Len(calls) = 2
  /\ \E i \in 1..Len(calls) : calls[i].at = 1
  /\ last.op = "assignEntitlementToUser"
  /\ last.ret

\* the entries of the batch that add or remove v, by index
Deciding(batch, v) ==
  {i \in 1..Len(batch) : Awaited(batch[i]) /\ batch[i].value = v}

LastOf(S) == CHOOSE i \in S : \A j \in S : j <= i

\* what is left of v after the batch: count is the number of grants of v
Decided(batch, v, count) ==
  LET at == Deciding(batch, v)
  IN at # {} =>
       IF batch[LastOf(at)].operation = "remove" THEN count = 0
       ELSE /\ count >= 1
            /\ (\E i \in at : batch[i].operation = "remove") => count = 1

\* C22: the entries of one patch take effect in the order given and the last
\* add or remove of a value decides: when it is a remove the user has no grant
\* of the value afterwards, when it is an add the user has one, and exactly one
\* when a remove of the value came before it in the patch -- whatever the
\* grants were before. The same for the id list of the in-memory mapping.
C22_LastEntryDecides ==
  /\ ( /\ last.op = "modifyUser"
       /\ last.baseEntity \in BaseEntities
       /\ last.id \in IdsOf(pre.users[last.baseEntity])
       /\ Has(last.arg, "entitlements") )
     => LET batch == last.arg.entitlements
            after == GrantsOf(Doc(users[last.baseEntity], last.id))
        IN \A v \in Added(batch) \cup Removed(batch) :
             Decided(batch, v, CountValue(after, v))
  /\ last.op = "EntitlementsPlugin.modifyUser"
     => LET batch == Entries(last.arg)
        IN \A v \in Added(batch) \cup Removed(batch) :
             Decided(batch, v,
                     Cardinality({i \in 1..Len(ListAfter) : ListAfter[i] = v}))

\* remove then add in one patch, on a user who held the value twice
C22_Witness ==
  /\ last.op = "modifyUser"
  /\ last.arg = [entitlements |-> <<Remove123, Add123>>]
  /\ last.id \in IdsOf(pre.users["a"])
  /\ CountValue(GrantsOf(Doc(pre.users["a"], last.id)), "entitlement-123") = 2
  /\ CountValue(GrantsOf(Doc(users["a"], last.id)), "entitlement-123") = 1

\* add then remove in one patch of the in-memory mapping, run to its end
C22_PluginWitness ==
  /\ last.op = "EntitlementsPlugin.modifyUser"
  /\ last.arg = [entitlements |-> <<Add123, Remove123>>]
  /\ "entitlement-123" \notin Range(ListAfter)

\* the entries of the batch that name add or remove
Known(batch) == SelectSeq(batch, Awaited)

Untouched(grants, batch) ==
  SelectSeq(grants, LAMBDA g : g.value \notin Added(batch) \cup Removed(batch))

\* C23: an entry of a patch whose operation is missing or is neither add nor
\* remove changes no grant and raises no error, and the entries beside it are
\* applied as if it were not there; the list of the patch is never stored as
\* the user's entitlements attribute; and the grants of the values that the
\* patch neither adds nor removes stay, in the order they had.
C23_OtherEntriesIgnored ==
  ( /\ last.op = "modifyUser"
    /\ last.baseEntity \in BaseEntities
    /\ last.id \in IdsOf(pre.users[last.baseEntity])
    /\ Has(last.arg, "entitlements") )
  => LET batch == last.arg.entitlements
         before == Doc(pre.users[last.baseEntity], last.id)
         after == Doc(users[last.baseEntity], last.id)
     IN /\ Succeeded
        /\ GrantsOf(after) = GrantsOf(ApplyEntries(before, Known(batch)))
        /\ Known(batch) = <<>> =>
             /\ Has(after, "entitlements") = Has(before, "entitlements")
             /\ GrantsOf(after) = GrantsOf(before)
        /\ \A i \in 1..Len(GrantsOf(after)) : ~Has(GrantsOf(after)[i], "operation")
        /\ Untouched(GrantsOf(after), batch) = Untouched(GrantsOf(before), batch)

\* a patch of one replace entry and one add, on a user with grants: the add
\* took effect next to the grants that were there
C23_Witness ==
  /\ last.op = "modifyUser"
  /\ Succeeded
  /\ last.arg = [entitlements |-> <<Replace123, Add456>>]
  /\ LET before == GrantsOf(Doc(pre.users["a"], last.id))
         after == GrantsOf(Doc(users["a"], last.id))
     IN /\ CountValue(before, "entitlement-123") > 0
        /\ after = Append(before, NewGrant(Add456))

\* the grant the claim describes for an add entry
SuppliedGrant(e) ==
  [value |-> e.value,
   display |-> IF Has(e, "display") THEN e.display ELSE e.value,
   type |-> IF Has(e, "type") THEN e.type ELSE "License",
   primary |-> IF Has(e, "primary") THEN e.primary ELSE FALSE]

\* a patch of one add entry for a value the user did not hold
AddedOne ==
  /\ last.op = "modifyUser"
  /\ last.baseEntity \in BaseEntities
  /\ last.id \in IdsOf(pre.users[last.baseEntity])
  /\ Has(last.arg, "entitlements")
  /\ Len(last.arg.entitlements) = 1
  /\ Added(last.arg.entitlements) # {}
  /\ CountValue(GrantsOf(Doc(pre.users[last.baseEntity], last.id)),
                last.arg.entitlements[1].value) = 0

\* C24: the grant that an add entry appends has the display of the entry when
\* the entry has one and the value otherwise, its type or else "License", its
\* primary or else false; and modifyEntitlement changes no user, so no grant
\* stored before it.
C24_GrantSnapshot ==
  /\ AddedOne =>
       GrantsOf(Doc(users[last.baseEntity], last.id))
         = Append(GrantsOf(Doc(pre.users[last.baseEntity], last.id)),
                  SuppliedGrant(last.arg.entitlements[1]))
  /\ last.op = "modifyEntitlement" => users = pre.users

\* the same with an empty display or type counted as not supplied
SnapshotOfTruthy ==
  /\ AddedOne =>
       GrantsOf(Doc(users[last.baseEntity], last.id))
         = Append(GrantsOf(Doc(pre.users[last.baseEntity], last.id)),
                  NewGrant(last.arg.entitlements[1]))
  /\ last.op = "modifyEntitlement" => users = pre.users

\* the last call is a query with a filter operator
Filtered ==
  /\ last.op \in QueryCalls
  /\ last.baseEntity \in BaseEntities
  /\ ~Falsy(last.arg, "operator")

\* the caller's object, passed once more to the same handler with the
\* collection as it is now
Resubmitted == Query(Target(Stores), last.result, Identifying)

\* C25: a query leaves the operator and the value of the caller's getObj as
\* they were, and the same object passed again to the same handler, with the
\* collection unchanged, succeeds with the same Resources and totalResults
\* when the first query succeeded.
C25_FilterObjectKept ==
  Filtered =>
    /\ last.result.operator = last.arg.operator
    /\ last.result.value = last.arg.value
    /\ Succeeded =>
         /\ Resubmitted.err = NoErr
         /\ Resubmitted.Resources = last.Resources
         /\ Resubmitted.totalResults = last.totalResults

\* the object that a successful query left behind has been passed again and
\* was rejected for its operator
ResubmissionRejected ==
  /\ last.op \in QueryCalls
  /\ ~Falsy(last.arg, "operator")
  /\ last.arg.operator \in {"$" \o o : o \in {"eq", "ne", "gt"}} \cup {"$contains", "$lte", "$regex"}
  /\ last.err.name = "invalidFilter"

\* no successful query comes of an object that a query has rewritten
NoResubmissionSucceeds ==
  ( /\ last.op \in QueryCalls
    /\ ~Falsy(last.arg, "operator")
    /\ last.arg.operator \notin {f.operator : f \in {g \in FilterData : Has(g, "operator")}} )
  => last.err.name = "invalidFilter"

PluginGetUsers == "EntitlementsPlugin.getUsers"

PluginGetUsersRan ==
  /\ last.op = PluginGetUsers
  /\ Len(last.Resources) = 2
  /\ Len(last.Resources[1].entitlements) = 2
  /\ Stores = pre

\* C27: in every reachable state the grants of every user hold each
\* entitlement value at most once.
C27_OneGrantPerValue ==
  \A e \in BaseEntities :
    \A i \in 1..Len(users[e]) : NoDup(GrantsOf(users[e][i]), "value")

\* the patches alone keep the grants of a user free of repeated values
PatchKeepsOneGrantPerValue ==
  ( /\ last.op = "modifyUser"
    /\ last.baseEntity \in BaseEntities
    /\ last.id \in IdsOf(pre.users[last.baseEntity])
    /\ NoDup(GrantsOf(Doc(pre.users[last.baseEntity], last.id)), "value") )
  => NoDup(GrantsOf(Doc(users[last.baseEntity], last.id)), "value")

\* the user that the deleteUser just done took out
DeletedUser == Doc(pre.users[last.baseEntity], last.id)

\* a deleteUser has succeeded and the next call creates a user of its name
CreatesDeletedName ==
  /\ last.op = "deleteUser"
  /\ Succeeded
  /\ last'.op = "createUser"
  /\ last'.baseEntity = last.baseEntity
  /\ ~Falsy(DeletedUser, "userName")
  /\ Has(last'.arg, "userName")
  /\ last'.arg.userName = DeletedUser.userName

\* C28: a createUser with the userName of the user that a deleteUser has just
\* taken out succeeds; the record has an id that neither the deleted user nor
\* any stored user had and the version W/"1", and it is the payload with id
\* and meta set, nothing of the deleted record in it.
C28_DeleteReleasesName ==
  [][ CreatesDeletedName =>
        /\ last'.err = NoErr
        /\ last'.result.id \notin IdsOf(pre.users[last.baseEntity])
        /\ last'.result.meta.version = Tag(1)
        /\ DOMAIN last'.result = DOMAIN last'.arg \cup {"id", "meta"}
        /\ \A k \in DOMAIN last'.arg \ {"id", "meta"} : last'.result[k] = last'.arg[k]
        /\ users'[last.baseEntity] = Append(users[last.baseEntity], last'.result)
    ]_vars

\* the same where no stored user has the name of the deleted one
C28_WhereNamesUnique ==
  [][ ( /\ CreatesDeletedName
        /\ \A i \in 1..Len(users[last.baseEntity]) :
             Has(users[last.baseEntity][i], "userName")
               => users[last.baseEntity][i].userName # DeletedUser.userName )
      => /\ last'.err = NoErr
         /\ last'.result.id \notin IdsOf(pre.users[last.baseEntity])
         /\ last'.result.meta.version = Tag(1)
         /\ DOMAIN last'.result = DOMAIN last'.arg \cup {"id", "meta"}
         /\ \A k \in DOMAIN last'.arg \ {"id", "meta"} : last'.result[k] = last'.arg[k]
         /\ users'[last.baseEntity] = Append(users[last.baseEntity], last'.result)
    ]_vars
====
